---- MODULE Spec2Model ----
(***************************************************************************)
(* Verification model of math-wizard.                                      *)
(*                                                                         *)
(*  - the multiplayer challenge record and the ChallengeMode clients       *)
(*    (services/challengeService.js, components/AnalyticsDashboard.jsx)    *)
(*  - the XP store and awardXP (services/xpService.js)                     *)
(*  - the QuestionCard session (components/ModuleSelector.jsx)             *)
(*                                                                         *)
(* Every await of the source is a point where other handlers may run, so   *)
(* each async handler is split into one action per awaited store call.     *)
(***************************************************************************)
EXTENDS Integers, Sequences, FiniteSets, TLC

NULL == "null"

Min(a, b) == IF a < b THEN a ELSE b

(***************************************************************************)
(* State                                                                   *)
(***************************************************************************)

\* the challenge document and the ChallengeMode clients
VARIABLES
    challenge,    \* the Firestore document of the challenge
    screen,       \* ChallengeMode.screen, per client
    role,         \* ChallengeMode.role
    currentQ,     \* ChallengeMode.currentQ (0-based, as in the source)
    feedback,     \* ChallengeMode.feedback is non-null
    myAnswers,    \* ChallengeMode.myAnswers
    error,        \* ChallengeMode.error
    listening,    \* the onChallengeUpdate subscription is active
    cpc,          \* position of the client's async handler
    pending       \* the `updates` object of a submitChallengeAnswer in flight

chVars == <<challenge, screen, role, currentQ, feedback,
            myAnswers, error, listening, cpc, pending>>

\* the user document and the awardXP calls
VARIABLES
    userDoc,      \* users/{userId}; 0 stands for a field the document lacks
    today,        \* the current date, as a day number
    xpc,          \* position of each caller inside awardXP
    xcall,        \* xpEarned and today of the call
    xcur,         \* `current`, the result of getUserXP
    xres,         \* what the call returned (or that it threw)
    xfail,        \* which store operation of the call failed
    xpInit,       \* totalXP before the first call
    xpSum,        \* sum of xpEarned over the calls started
    awards,       \* calls started
    failedCalls   \* calls in which a store operation failed

xpVars == <<userDoc, today, xpc, xcall, xcur, xres, xfail, xpInit, xpSum,
           awards, failedCalls>>

\* one QuestionCard
VARIABLES
    mode,               \* 'play' | 'test'
    userGrade,
    loading,
    operation,
    correctAnswer,      \* NULL or the (non-null) answer of the question
    qFeedback,          \* QuestionCard.feedback, by kind
    isCorrect,          \* NULL | "true" | "false"
    isSubmitting,
    sessionStats,
    questionsInSession,
    missedQuestions,
    showSummary,
    showPlaySummary,
    currentStreak,
    sessionXP,
    autoAdvanceRef,     \* autoAdvanceRef.current holds a pending timeout
    timers,             \* auto-advance timeouts that have not fired yet
    loads,              \* loadQuestion calls in flight
    qpc,                \* position of handleSubmit: idle, awardXP, saveAnswer
    submitted,          \* locals of the handleSubmit in flight
    issued,             \* loadQuestion calls started
    presented,          \* questions shown to the user
    awardCalls,         \* awardXP calls made
    saveCalls,          \* saveAnswer calls made
    failures,           \* awardXP and loadQuestion calls that failed
    unscored,           \* submissions left unscored
    lastSubmitRejected  \* the last event was a submit that the guard rejected

qVars == <<mode, userGrade, loading, operation, correctAnswer, qFeedback,
           isCorrect, isSubmitting, sessionStats, questionsInSession,
           missedQuestions, showSummary, showPlaySummary, currentStreak,
           sessionXP, autoAdvanceRef, timers, loads, qpc, submitted, issued,
           presented, awardCalls, saveCalls, failures,
           unscored, lastSubmitRejected>>

\* the profile fields of the users document
VARIABLES
    userProfile   \* what saveUserProfile wrote; NoProfile before it

dbVars == <<userProfile>>

\* one call of a pure helper
VARIABLES
    fnCall,       \* the helper called and its arguments
    fnResult      \* what it returned, once it has returned

fnVars == <<fnCall, fnResult>>

vars == <<chVars, xpVars, qVars, dbVars, fnVars>>

(***************************************************************************)
(* Part 1 - challenges                                                     *)
(***************************************************************************)

\* challengeService.js: number of questions of a challenge
CHALLENGE_QUESTION_COUNT == 5

\* the user who creates the challenge and the users who try to join it
Creator == "u1"
Joiners == {"u2", "u3"}
Users == {Creator} \cup Joiners

\* serverTimestamp(): the commit time of a write; two writes never share one,
\* so the time is named by the call that made the write
serverTimestamp(u) == "t_" \o u

\* userName passed along with userId
userName(u) == "name_" \o u

NoChallenge ==
    [status |-> "none", creatorId |-> NULL, creatorName |-> NULL,
     opponentId |-> NULL, opponentName |-> NULL, questions |-> <<>>,
     creatorAnswers |-> <<>>, opponentAnswers |-> <<>>,
     startedAt |-> NULL, completedAt |-> NULL]

NoPending == [field |-> NULL, answers |-> <<>>, completed |-> FALSE]

\* generateChallengeQuestions: one question per loop iteration, `count` of them
generateChallengeQuestions(count) == [i \in 1..count |-> i]

InitChallenge ==
    /\ challenge = NoChallenge
    /\ screen = [u \in Users |-> "lobby"]
    /\ role = [u \in Users |-> NULL]
    /\ currentQ = [u \in Users |-> 0]
    /\ feedback = [u \in Users |-> FALSE]
    /\ myAnswers = [u \in Users |-> <<>>]
    /\ error = [u \in Users |-> ""]
    /\ listening = [u \in Users |-> FALSE]
    /\ cpc = [u \in Users |-> "idle"]
    /\ pending = [u \in Users |-> NoPending]

\* ChallengeMode.startListening callback, run on a snapshot of the document
onChallengeUpdate(u) ==
    /\ listening[u]
    /\ challenge.status # "none"
    /\ screen' = [screen EXCEPT ![u] =
          IF challenge.status = "completed" THEN "results"
          ELSE IF role[u] = "creator" /\ challenge.status = "active"
                  /\ challenge.opponentId # NULL THEN "game"
          ELSE @]
    /\ UNCHANGED <<challenge, role, currentQ, feedback, myAnswers,
                   error, listening, cpc, pending>>
    /\ UNCHANGED <<xpVars, qVars, dbVars, fnVars>>

\* ChallengeMode.handleCreate with createChallenge: the document is written
\* and the creator waits for an opponent
handleCreate(u) ==
    /\ u = Creator
    /\ screen[u] = "lobby"
    /\ cpc[u] = "idle"
    /\ challenge.status = "none"
    /\ challenge' = [NoChallenge EXCEPT
          !.status = "waiting", !.creatorId = u, !.creatorName = userName(u),
          !.questions = generateChallengeQuestions(CHALLENGE_QUESTION_COUNT)]
    /\ role' = [role EXCEPT ![u] = "creator"]
    /\ screen' = [screen EXCEPT ![u] = "waiting"]
    /\ error' = [error EXCEPT ![u] = ""]
    /\ listening' = [listening EXCEPT ![u] = TRUE]
    /\ UNCHANGED <<currentQ, feedback, myAnswers, cpc, pending>>
    /\ UNCHANGED <<xpVars, qVars, dbVars, fnVars>>

\* the Cancel button of the waiting screen
cancelWaiting(u) ==
    /\ screen[u] = "waiting"
    /\ screen' = [screen EXCEPT ![u] = "lobby"]
    /\ listening' = [listening EXCEPT ![u] = FALSE]
    /\ UNCHANGED <<challenge, role, currentQ, feedback, myAnswers,
                   error, cpc, pending>>
    /\ UNCHANGED <<xpVars, qVars, dbVars, fnVars>>

\* ChallengeMode.handleJoin up to the await of joinChallenge
handleJoin(u) ==
    /\ screen[u] = "lobby"
    /\ cpc[u] = "idle"
    /\ error' = [error EXCEPT ![u] = ""]
    /\ cpc' = [cpc EXCEPT ![u] = "joinQuery"]
    /\ UNCHANGED <<challenge, screen, role, currentQ, feedback,
                   myAnswers, listening, pending>>
    /\ UNCHANGED <<xpVars, qVars, dbVars, fnVars>>

\* joinChallenge: the query for a waiting challenge with this code resolves
joinChallenge_getDocs(u) ==
    /\ cpc[u] = "joinQuery"
    /\ IF challenge.status # "waiting"
       THEN /\ error' = [error EXCEPT ![u] = "Challenge not found or already started."]
            /\ cpc' = [cpc EXCEPT ![u] = "idle"]
       ELSE IF challenge.creatorId = u
       THEN /\ error' = [error EXCEPT ![u] = "You can't join your own challenge!"]
            /\ cpc' = [cpc EXCEPT ![u] = "idle"]
       ELSE /\ cpc' = [cpc EXCEPT ![u] = "joinWrite"]
            /\ UNCHANGED error
    /\ UNCHANGED <<challenge, screen, role, currentQ, feedback,
                   myAnswers, listening, pending>>
    /\ UNCHANGED <<xpVars, qVars, dbVars, fnVars>>

\* joinChallenge: updateDoc is applied, then handleJoin enters the game
joinChallenge_updateDoc(u) ==
    /\ cpc[u] = "joinWrite"
    /\ challenge' = [challenge EXCEPT
          !.opponentId = u, !.opponentName = userName(u),
          !.status = "active", !.startedAt = serverTimestamp(u)]
    /\ role' = [role EXCEPT ![u] = "opponent"]
    /\ screen' = [screen EXCEPT ![u] = "game"]
    /\ listening' = [listening EXCEPT ![u] = TRUE]
    /\ cpc' = [cpc EXCEPT ![u] = "idle"]
    /\ UNCHANGED <<currentQ, feedback, myAnswers, error, pending>>
    /\ UNCHANGED <<xpVars, qVars, dbVars, fnVars>>

\* the answerData of ChallengeMode.handleSubmit : the answer to the question
\* the client is showing
answerData(u) == [q |-> currentQ[u] + 1]

\* ChallengeMode.handleSubmit up to the await of submitChallengeAnswer
ChallengeMode_handleSubmit(u) ==
    /\ screen[u] = "game"
    /\ ~feedback[u]
    /\ cpc[u] = "idle"
    /\ feedback' = [feedback EXCEPT ![u] = TRUE]
    /\ myAnswers' = [myAnswers EXCEPT ![u] = Append(@, answerData(u))]
    /\ cpc' = [cpc EXCEPT ![u] = "submitRead"]
    /\ UNCHANGED <<challenge, screen, role, currentQ, error,
                   listening, pending>>
    /\ UNCHANGED <<xpVars, qVars, dbVars, fnVars>>

\* answersField with every role writing the creator's array
answersField_creatorOnly(r) == "creatorAnswers"

answersField(r) == IF r = "creator" THEN "creatorAnswers" ELSE "opponentAnswers"
otherField(r) == IF r = "creator" THEN "opponentAnswers" ELSE "creatorAnswers"

\* submitChallengeAnswer from getDoc to the updates object
submitUpdates(data, r, ad) ==
    LET updatedAnswers == Append(data[answersField(r)], ad)
        otherAnswers == data[otherField(r)]
    IN [field |-> answersField(r),
        answers |-> updatedAnswers,
        completed |-> /\ Len(updatedAnswers) >= Len(data.questions)
                      /\ Len(otherAnswers) >= Len(data.questions)]

\* submitChallengeAnswer: getDoc resolves with the current document
submitChallengeAnswer_getDoc(u) ==
    /\ cpc[u] = "submitRead"
    /\ pending' = [pending EXCEPT ![u] =
          submitUpdates(challenge, role[u], myAnswers[u][Len(myAnswers[u])])]
    /\ cpc' = [cpc EXCEPT ![u] = "submitWrite"]
    /\ UNCHANGED <<challenge, screen, role, currentQ, feedback,
                   myAnswers, error, listening>>
    /\ UNCHANGED <<xpVars, qVars, dbVars, fnVars>>

\* updateDoc(ref, updates) applied to the stored document
applyUpdates(doc, upd, now) ==
    LET withAnswers == [doc EXCEPT ![upd.field] = upd.answers]
    IN IF upd.completed
       THEN [withAnswers EXCEPT !.status = "completed", !.completedAt = now]
       ELSE withAnswers

\* submitChallengeAnswer: updateDoc is applied and the call returns
submitChallengeAnswer_updateDoc(u) ==
    /\ cpc[u] = "submitWrite"
    /\ challenge' = applyUpdates(challenge, pending[u], serverTimestamp(u))
    /\ pending' = [pending EXCEPT ![u] = NoPending]
    /\ cpc' = [cpc EXCEPT ![u] = "timer"]
    /\ UNCHANGED <<screen, role, currentQ, feedback, myAnswers, error,
                   listening>>
    /\ UNCHANGED <<xpVars, qVars, dbVars, fnVars>>

\* submitChallengeAnswer rejects (getDoc or updateDoc fails); handleSubmit
\* logs the error and goes on
submitChallengeAnswer_fail(u) ==
    /\ cpc[u] \in {"submitRead", "submitWrite"}
    /\ pending' = [pending EXCEPT ![u] = NoPending]
    /\ cpc' = [cpc EXCEPT ![u] = "timer"]
    /\ UNCHANGED <<challenge, screen, role, currentQ, feedback,
                   myAnswers, error, listening>>
    /\ UNCHANGED <<xpVars, qVars, dbVars, fnVars>>

\* the setTimeout callback of handleSubmit
ChallengeMode_timeout(u) ==
    /\ cpc[u] = "timer"
    /\ cpc' = [cpc EXCEPT ![u] = "idle"]
    /\ IF currentQ[u] + 1 < Len(challenge.questions)
       THEN /\ currentQ' = [currentQ EXCEPT ![u] = @ + 1]
            /\ feedback' = [feedback EXCEPT ![u] = FALSE]
       ELSE UNCHANGED <<currentQ, feedback>>
    /\ UNCHANGED <<challenge, screen, role, myAnswers, error,
                   listening, pending>>
    /\ UNCHANGED <<xpVars, qVars, dbVars, fnVars>>

\* what one client can do while every store call succeeds
clientStep(u) ==
    \/ handleCreate(u)
    \/ cancelWaiting(u)
    \/ handleJoin(u)
    \/ joinChallenge_getDocs(u)
    \/ joinChallenge_updateDoc(u)
    \/ onChallengeUpdate(u)
    \/ ChallengeMode_handleSubmit(u)
    \/ submitChallengeAnswer_getDoc(u)
    \/ submitChallengeAnswer_updateDoc(u)
    \/ ChallengeMode_timeout(u)

\* the creator and two users racing to join; every store call succeeds
NextChallenge == \E u \in Users : clientStep(u)

\* the creator and one opponent; store calls of submitChallengeAnswer may fail
NextChallengeFail ==
    \E u \in {Creator, "u2"} : clientStep(u) \/ submitChallengeAnswer_fail(u)

(***************************************************************************)
(* Part 2 - XP store (services/xpService.js)                               *)
(***************************************************************************)

LEVEL_THRESHOLDS == <<0, 100, 250, 500, 800, 1200, 1700, 2500, 3500, 5000>>

BASE_XP == 10
STREAK_BONUS_PER == 2
MAX_STREAK_BONUS == 20
DEFAULT_DAILY_GOAL == 10

Difficulties == {"Very Easy", "Easy", "Medium", "Hard", "Very Hard"}

\* DIFFICULTY_BONUS[difficulty] || 0
DIFFICULTY_BONUS(difficulty) ==
    CASE difficulty = "Very Easy" -> 0
      [] difficulty = "Easy" -> 0
      [] difficulty = "Medium" -> 5
      [] difficulty = "Hard" -> 10
      [] difficulty = "Very Hard" -> 15
      [] OTHER -> 0

\* the loop of getLevelForXP; index i here is index i - 1 of the source array
RECURSIVE levelScan(_, _)
levelScan(xp, i) ==
    IF i < 1 THEN 1
    ELSE IF xp >= LEVEL_THRESHOLDS[i] THEN i
    ELSE levelScan(xp, i - 1)

\* getLevelForXP with its loop starting one entry below the last threshold
getLevelForXP_fromSecondLast(xp) == levelScan(xp, Len(LEVEL_THRESHOLDS) - 1)

getLevelForXP(xp) == levelScan(xp, Len(LEVEL_THRESHOLDS))

\* xpToNextLevel reading the threshold of the current level
xpToNextLevel_currentThreshold(xp) ==
    LET level == getLevelForXP(xp)
    IN IF level >= Len(LEVEL_THRESHOLDS) THEN 0
       ELSE LEVEL_THRESHOLDS[level] - xp

\* LEVEL_THRESHOLDS[level] of the source is entry level + 1 here
xpToNextLevel(xp) ==
    LET level == getLevelForXP(xp)
    IN IF level >= Len(LEVEL_THRESHOLDS) THEN 0
       ELSE LEVEL_THRESHOLDS[level + 1] - xp

\* calculateXPEarned without the Math.min on the streak bonus
calculateXPEarned_uncapped(correct, streak, difficulty) ==
    IF ~correct THEN 0
    ELSE BASE_XP + streak * STREAK_BONUS_PER + DIFFICULTY_BONUS(difficulty)

calculateXPEarned(correct, streak, difficulty) ==
    IF ~correct THEN 0
    ELSE BASE_XP + Min(streak * STREAK_BONUS_PER, MAX_STREAK_BONUS)
         + DIFFICULTY_BONUS(difficulty)

\* concurrent callers of awardXP for the one user (tabs, devices, handlers)
Procs == {"p1", "p2"}

\* awardXP calls started in one behaviour
MaxAwards == 3
\* streak values passed to awardXP
MaxStreakArg == 1
\* difficulty values passed to awardXP
AwardDifficulties == {"Easy", "Very Hard"}
\* the last calendar day of a behaviour; day 1 is the day before it starts,
\* day 2 the day it starts
MaxDay == 3
\* totalXP values the user document may start with
InitialXPs == {80}

EmptyDoc == [totalXP |-> 0, level |-> 0, dailyQuestions |-> 0,
             dailyGoal |-> 0, lastActiveDate |-> 0]

NoCall == [xpEarned |-> 0, today |-> 0]
NoCurrent == [totalXP |-> 0, level |-> 0, dailyQuestions |-> 0,
              dailyGoal |-> 0, lastActiveDate |-> 0]
NoResult == [threw |-> FALSE, xpEarned |-> 0, totalXP |-> 0, level |-> 0,
             leveledUp |-> FALSE, dailyQuestions |-> 0, dailyGoal |-> 0]
Threw == [NoResult EXCEPT !.threw = TRUE]

\* getUserXP applied to the document data, `now` being its own today
getUserXP(data, now) ==
    [totalXP |-> data.totalXP,
     level |-> IF data.level = 0 THEN 1 ELSE data.level,
     dailyQuestions |-> IF data.lastActiveDate = now THEN data.dailyQuestions ELSE 0,
     dailyGoal |-> IF data.dailyGoal = 0 THEN DEFAULT_DAILY_GOAL ELSE data.dailyGoal,
     lastActiveDate |-> IF data.lastActiveDate = 0 THEN now ELSE data.lastActiveDate]

\* the documents a user may have before the calls: none, or one that earlier
\* awardXP calls wrote
InitialDocs ==
    {EmptyDoc} \cup
    {[totalXP |-> x, level |-> getLevelForXP(x), dailyQuestions |-> n,
      dailyGoal |-> DEFAULT_DAILY_GOAL, lastActiveDate |-> d] :
        x \in InitialXPs, n \in {1}, d \in {1, 2}}

InitXPWith(doc) ==
    /\ today = 2
    /\ userDoc = doc
    /\ xpInit = userDoc.totalXP
    /\ xpSum = 0
    /\ awards = 0
    /\ failedCalls = 0
    /\ xpc = [p \in Procs |-> "idle"]
    /\ xcall = [p \in Procs |-> NoCall]
    /\ xcur = [p \in Procs |-> NoCurrent]
    /\ xres = [p \in Procs |-> NoResult]
    /\ xfail = [p \in Procs |-> "none"]

InitXP == \E doc \in InitialDocs : InitXPWith(doc)

\* midnight passes
newDay ==
    /\ today < MaxDay
    /\ today' = today + 1
    /\ UNCHANGED <<userDoc, xpc, xcall, xcur, xres, xfail, xpInit, xpSum, awards, failedCalls>>
    /\ UNCHANGED <<chVars, qVars, dbVars, fnVars>>

\* awardXP up to the await of getUserXP
awardXP_call(p) ==
    /\ xpc[p] \in {"idle", "done"}
    /\ awards < MaxAwards
    /\ \E correct \in BOOLEAN, streak \in 0..MaxStreakArg, difficulty \in AwardDifficulties :
          LET xpEarned == calculateXPEarned(correct, streak, difficulty)
          IN /\ xcall' = [xcall EXCEPT ![p] = [xpEarned |-> xpEarned, today |-> today]]
             /\ xpSum' = xpSum + xpEarned
    /\ awards' = awards + 1
    /\ xpc' = [xpc EXCEPT ![p] = "read"]
    /\ xcur' = [xcur EXCEPT ![p] = NoCurrent]
    /\ xres' = [xres EXCEPT ![p] = NoResult]
    /\ xfail' = [xfail EXCEPT ![p] = "none"]
    /\ UNCHANGED <<userDoc, today, xpInit, failedCalls>>
    /\ UNCHANGED <<chVars, qVars, dbVars, fnVars>>

\* getUserXP resolves inside awardXP
awardXP_getUserXP(p) ==
    /\ xpc[p] = "read"
    /\ xcur' = [xcur EXCEPT ![p] = getUserXP(userDoc, today)]
    /\ xpc' = [xpc EXCEPT ![p] = "write"]
    /\ UNCHANGED <<userDoc, today, xcall, xres, xfail, xpInit, xpSum, awards, failedCalls>>
    /\ UNCHANGED <<chVars, qVars, dbVars, fnVars>>

\* getUserXP rejects: the await is outside the try block, so awardXP rejects
awardXP_getUserXP_fail(p) ==
    /\ xpc[p] = "read"
    /\ xres' = [xres EXCEPT ![p] = Threw]
    /\ xfail' = [xfail EXCEPT ![p] = "read"]
    /\ xpc' = [xpc EXCEPT ![p] = "done"]
    /\ UNCHANGED <<userDoc, today, xcall, xcur, xpInit, xpSum, awards>>
    /\ failedCalls' = failedCalls + 1
    /\ UNCHANGED <<chVars, qVars, dbVars, fnVars>>

\* newDaily of awardXP
newDaily(current, callToday) ==
    IF current.lastActiveDate # callToday THEN 1 ELSE current.dailyQuestions + 1

\* awardXP_setDoc with totalXP written as the total computed from the read,
\* instead of increment(xpEarned)
awardXP_setDoc_overwrite(data, current, call) ==
    IF call.xpEarned = 0
    THEN [data EXCEPT !.dailyQuestions =
                          (IF current.lastActiveDate # call.today THEN 1
                           ELSE current.dailyQuestions + 1),
                      !.lastActiveDate = call.today]
    ELSE [data EXCEPT !.totalXP = current.totalXP + call.xpEarned,
                      !.level = getLevelForXP(current.totalXP + call.xpEarned),
                      !.dailyQuestions =
                          (IF current.lastActiveDate # call.today THEN 1
                           ELSE current.dailyQuestions + 1),
                      !.dailyGoal = current.dailyGoal,
                      !.lastActiveDate = call.today]

\* the document after the setDoc(..., { merge: true }) of awardXP;
\* increment(xpEarned) is applied by the store to the stored totalXP
awardXP_setDoc(data, current, call) ==
    IF call.xpEarned = 0
    THEN [data EXCEPT !.dailyQuestions = newDaily(current, call.today),
                      !.lastActiveDate = call.today]
    ELSE [data EXCEPT !.totalXP = data.totalXP + call.xpEarned,
                      !.level = getLevelForXP(current.totalXP + call.xpEarned),
                      !.dailyQuestions = newDaily(current, call.today),
                      !.dailyGoal = current.dailyGoal,
                      !.lastActiveDate = call.today]

\* awardXP_result with leveledUp set whenever the level did not drop
awardXP_result_leveledUpAlways(current, call) ==
    IF call.xpEarned = 0
    THEN [threw |-> FALSE, xpEarned |-> 0, totalXP |-> current.totalXP,
          level |-> current.level, leveledUp |-> FALSE,
          dailyQuestions |-> newDaily(current, call.today),
          dailyGoal |-> current.dailyGoal]
    ELSE LET newTotalXP == current.totalXP + call.xpEarned
             oldLevel == getLevelForXP(current.totalXP)
             newLevel == getLevelForXP(newTotalXP)
         IN [threw |-> FALSE, xpEarned |-> call.xpEarned, totalXP |-> newTotalXP,
             level |-> newLevel, leveledUp |-> newLevel >= oldLevel,
             dailyQuestions |-> newDaily(current, call.today),
             dailyGoal |-> current.dailyGoal]

\* the value awardXP returns after a successful write
awardXP_result(current, call) ==
    IF call.xpEarned = 0
    THEN [threw |-> FALSE, xpEarned |-> 0, totalXP |-> current.totalXP,
          level |-> current.level, leveledUp |-> FALSE,
          dailyQuestions |-> newDaily(current, call.today),
          dailyGoal |-> current.dailyGoal]
    ELSE LET newTotalXP == current.totalXP + call.xpEarned
             oldLevel == getLevelForXP(current.totalXP)
             newLevel == getLevelForXP(newTotalXP)
         IN [threw |-> FALSE, xpEarned |-> call.xpEarned, totalXP |-> newTotalXP,
             level |-> newLevel, leveledUp |-> newLevel > oldLevel,
             dailyQuestions |-> newDaily(current, call.today),
             dailyGoal |-> current.dailyGoal]

\* the value awardXP returns from its catch block
awardXP_fallback(current) ==
    [threw |-> FALSE, xpEarned |-> 0, totalXP |-> current.totalXP,
     level |-> current.level, leveledUp |-> FALSE,
     dailyQuestions |-> current.dailyQuestions, dailyGoal |-> current.dailyGoal]

\* awardXP_write without the `xpEarned === 0` branch: every call writes
\* totalXP, level, dailyQuestions, dailyGoal and lastActiveDate
awardXP_write_fullDoc(p) ==
    /\ xpc[p] = "write"
    /\ userDoc' = [userDoc EXCEPT
                      !.totalXP = userDoc.totalXP + xcall[p].xpEarned,
                      !.level = getLevelForXP(xcur[p].totalXP + xcall[p].xpEarned),
                      !.dailyQuestions = newDaily(xcur[p], xcall[p].today),
                      !.dailyGoal = xcur[p].dailyGoal,
                      !.lastActiveDate = xcall[p].today]
    /\ xres' = [xres EXCEPT ![p] = awardXP_result(xcur[p], xcall[p])]
    /\ xpc' = [xpc EXCEPT ![p] = "done"]
    /\ UNCHANGED <<today, xcall, xcur, xfail, xpInit, xpSum, awards, failedCalls>>
    /\ UNCHANGED <<chVars, qVars, dbVars, fnVars>>

\* setDoc is applied and awardXP returns
awardXP_write(p) ==
    /\ xpc[p] = "write"
    /\ userDoc' = awardXP_setDoc(userDoc, xcur[p], xcall[p])
    /\ xres' = [xres EXCEPT ![p] = awardXP_result(xcur[p], xcall[p])]
    /\ xpc' = [xpc EXCEPT ![p] = "done"]
    /\ UNCHANGED <<today, xcall, xcur, xfail, xpInit, xpSum, awards, failedCalls>>
    /\ UNCHANGED <<chVars, qVars, dbVars, fnVars>>

\* setDoc rejects and awardXP returns the fallback
awardXP_write_fail(p) ==
    /\ xpc[p] = "write"
    /\ xres' = [xres EXCEPT ![p] = awardXP_fallback(xcur[p])]
    /\ xfail' = [xfail EXCEPT ![p] = "write"]
    /\ xpc' = [xpc EXCEPT ![p] = "done"]
    /\ UNCHANGED <<userDoc, today, xcall, xcur, xpInit, xpSum, awards>>
    /\ failedCalls' = failedCalls + 1
    /\ UNCHANGED <<chVars, qVars, dbVars, fnVars>>

NextXP ==
    \/ newDay
    \/ \E p \in Procs :
          \/ awardXP_call(p)
          \/ awardXP_getUserXP(p)
          \/ awardXP_getUserXP_fail(p)
          \/ awardXP_write(p)
          \/ awardXP_write_fail(p)

(***************************************************************************)
(* Part 3 - the question session (QuestionCard, ModuleSelector.jsx)        *)
(***************************************************************************)

TEST_QUESTION_COUNT == 10

\* loadQuestion calls started in one play-mode session (the first on mount)
MaxPlayQuestions == 4
\* submissions of one session that are left unscored (no answer could be
\* extracted, or the input is not a number)
MaxUnscored == 1
\* awardXP and loadQuestion calls of one session that fail
MaxFailures == 1

Grades == {"KG-1", "2-3", "4-5", "6-7", "7-8", "9+"}

\* getDifficultyThresholdsForGrade, in percent; unknown grades get '4-5'
getDifficultyThresholdsForGrade(grade) ==
    CASE grade = "KG-1" -> [veryEasy |-> 0, easy |-> 25, medium |-> 40, hard |-> 60, veryHard |-> 75]
      [] grade = "2-3" -> [veryEasy |-> 10, easy |-> 30, medium |-> 50, hard |-> 70, veryHard |-> 85]
      [] grade = "4-5" -> [veryEasy |-> 20, easy |-> 40, medium |-> 60, hard |-> 75, veryHard |-> 85]
      [] grade = "6-7" -> [veryEasy |-> 30, easy |-> 50, medium |-> 65, hard |-> 80, veryHard |-> 88]
      [] grade = "7-8" -> [veryEasy |-> 40, easy |-> 55, medium |-> 70, hard |-> 82, veryHard |-> 90]
      [] grade = "9+" -> [veryEasy |-> 50, easy |-> 65, medium |-> 75, hard |-> 85, veryHard |-> 92]
      [] OTHER -> [veryEasy |-> 20, easy |-> 40, medium |-> 60, hard |-> 75, veryHard |-> 85]

\* accuracyBelow with an empty record counted as accuracy 1
accuracyBelow_emptyIsPerfect(correct, total, pct) ==
    IF total > 0 THEN correct * 100 < pct * total ELSE 100 < pct

\* accuracy < threshold, with accuracy = correct / total (0 when total = 0)
\* and the threshold in percent
accuracyBelow(correct, total, pct) ==
    IF total > 0 THEN correct * 100 < pct * total ELSE 0 < pct

\* the difficulty field of calculateGradeAwareDifficulty
calculateGradeAwareDifficulty(correct, total, grade) ==
    LET thresholds == getDifficultyThresholdsForGrade(grade)
    IN IF accuracyBelow(correct, total, thresholds.veryEasy) THEN "Very Easy"
       ELSE IF accuracyBelow(correct, total, thresholds.easy) THEN "Easy"
       ELSE IF accuracyBelow(correct, total, thresholds.medium) THEN "Medium"
       ELSE IF accuracyBelow(correct, total, thresholds.hard) THEN "Hard"
       ELSE "Very Hard"

\* operations a session draws from: a numeric one and the string-compared one
Operations == {"addition", "logic_patterns"}

\* grades of the sessions explored
SessionGrades == {"4-5"}

\* what the user typed, relative to the question's answer:
\* the right answer, a wrong answer, or text that is not a number
Inputs == {"right", "wrong", "not a number"}

NoSubmit == [correct |-> FALSE, streak |-> 0, difficulty |-> "Medium"]

\* the state after the first render and the loadQuestion() of the mount effect
InitSessionWith(m, g) ==
    /\ mode = m
    /\ userGrade = g
    /\ loading = TRUE
    /\ operation = ""
    /\ correctAnswer = NULL
    /\ qFeedback = ""
    /\ isCorrect = NULL
    /\ isSubmitting = FALSE
    /\ sessionStats = [correct |-> 0, total |-> 0, difficulty |-> "Medium"]
    /\ questionsInSession = 0
    /\ missedQuestions = <<>>
    /\ showSummary = FALSE
    /\ showPlaySummary = FALSE
    /\ currentStreak = 0
    /\ sessionXP = 0
    /\ autoAdvanceRef = FALSE
    /\ timers = 0
    /\ loads = 1
    /\ qpc = "idle"
    /\ submitted = NoSubmit
    /\ issued = 1
    /\ presented = 0
    /\ awardCalls = 0
    /\ saveCalls = 0
    /\ failures = 0
    /\ unscored = 0
    /\ lastSubmitRejected = FALSE

InitSession == \E m \in {"play", "test"}, g \in SessionGrades : InitSessionWith(m, g)

\* play mode never ends by itself: the session is followed up to
\* MaxPlayQuestions loadQuestion calls
mayLoadAnother == mode = "test" \/ issued < MaxPlayQuestions

\* the form and the buttons of the question view are rendered
questionViewShown == ~loading /\ ~showSummary /\ ~showPlaySummary

\* loadQuestion after its awaits: the generator returned a question, with an
\* answer of its own or else the one calculateAnswer extracts (possibly null)
loadQuestion_done ==
    /\ loads > 0
    /\ loads' = loads - 1
    /\ \E op \in Operations, answer \in {NULL, "answer"} :
          /\ operation' = op
          /\ correctAnswer' = answer
    /\ loading' = FALSE
    /\ presented' = presented + 1
    /\ lastSubmitRejected' = FALSE
    /\ UNCHANGED <<mode, userGrade, qFeedback, isCorrect, isSubmitting,
                   sessionStats, questionsInSession, missedQuestions,
                   showSummary, showPlaySummary, currentStreak, sessionXP,
                   autoAdvanceRef, timers, qpc, submitted, issued,
                   awardCalls, saveCalls, failures, unscored>>
    /\ UNCHANGED <<chVars, xpVars, dbVars, fnVars>>

\* loadQuestion when getUserAnswerHistory or generateQuestion rejects: the
\* question text becomes the error message, correctAnswer keeps its old value
loadQuestion_fail ==
    /\ loads > 0
    /\ failures < MaxFailures
    /\ failures' = failures + 1
    /\ loads' = loads - 1
    /\ \E op \in {operation} \cup Operations : operation' = op
    /\ loading' = FALSE
    /\ lastSubmitRejected' = FALSE
    /\ UNCHANGED <<mode, userGrade, correctAnswer, qFeedback, isCorrect,
                   isSubmitting, sessionStats, questionsInSession,
                   missedQuestions, showSummary, showPlaySummary,
                   currentStreak, sessionXP, autoAdvanceRef, timers, qpc,
                   submitted, issued, presented, awardCalls, saveCalls, unscored>>
    /\ UNCHANGED <<chVars, xpVars, dbVars, fnVars>>

\* the guard of handleSubmit without its `isCorrect !== null` test
submitAccepted_whileFeedback == ~isSubmitting

\* the guard of handleSubmit: `if (isSubmitting || isCorrect !== null) return`
submitAccepted == ~isSubmitting /\ isCorrect = NULL

\* handleSubmit when the guard returns at once
handleSubmit_rejected ==
    /\ questionViewShown
    /\ ~submitAccepted
    /\ lastSubmitRejected' = TRUE
    /\ UNCHANGED <<mode, userGrade, loading, operation, correctAnswer,
                   qFeedback, isCorrect, isSubmitting, sessionStats,
                   questionsInSession, missedQuestions, showSummary,
                   showPlaySummary, currentStreak, sessionXP, autoAdvanceRef,
                   timers, loads, qpc, submitted, issued, presented,
                   awardCalls, saveCalls, failures, unscored>>
    /\ UNCHANGED <<chVars, xpVars, dbVars, fnVars>>

\* handleSubmit when correctAnswer is null, or when the input of a numeric
\* question does not parse: feedback only, nothing is scored
handleSubmit_unscored(input) ==
    /\ questionViewShown
    /\ submitAccepted
    /\ \/ /\ correctAnswer = NULL
          /\ qFeedback' = "unable to extract answer"
       \/ /\ correctAnswer # NULL
          /\ operation # "logic_patterns"
          /\ input = "not a number"
          /\ qFeedback' = "enter a valid number"
    /\ unscored < MaxUnscored
    /\ unscored' = unscored + 1
    /\ isCorrect' = "false"
    /\ isSubmitting' = FALSE
    /\ lastSubmitRejected' = FALSE
    /\ UNCHANGED <<mode, userGrade, loading, operation, correctAnswer,
                   sessionStats, questionsInSession, missedQuestions,
                   showSummary, showPlaySummary, currentStreak, sessionXP,
                   autoAdvanceRef, timers, loads, qpc, submitted, issued,
                   presented, awardCalls, saveCalls, failures>>
    /\ UNCHANGED <<chVars, xpVars, dbVars, fnVars>>

\* newStreak with the streak growing after an incorrect answer as well
streakAfter_neverReset(correct) == currentStreak + 1

\* `const newStreak = correct ? currentStreak + 1 : 0`
streakAfter(correct) == IF correct THEN currentStreak + 1 ELSE 0

\* the missedQuestions update with an entry for every scored answer
missedAfter_everyAnswer(correct) ==
    Append(missedQuestions, [correctAnswer |-> correctAnswer])

\* `if (!correct) setMissedQuestions(prev => [...prev, {...}])`
missedAfter(correct) ==
    IF correct THEN missedQuestions
    ELSE Append(missedQuestions, [correctAnswer |-> correctAnswer])

\* handleSubmit_scored without the `correctAnswer === null` return before it
handleSubmit_scored_nullAnswer(input) ==
    /\ questionViewShown
    /\ submitAccepted
    /\ operation = "logic_patterns" \/ input # "not a number"
    /\ LET correct == (input = "right")
           newStreak == streakAfter(correct)
           newTotal == sessionStats.total + 1
           newCorrect == IF correct THEN sessionStats.correct + 1 ELSE sessionStats.correct
           newDifficulty == calculateGradeAwareDifficulty(newCorrect, newTotal, userGrade)
       IN /\ isCorrect' = (IF correct THEN "true" ELSE "false")
          /\ currentStreak' = newStreak
          /\ qFeedback' = IF correct THEN "correct" ELSE "not quite"
          /\ sessionStats' = [correct |-> newCorrect, total |-> newTotal,
                              difficulty |-> newDifficulty]
          /\ questionsInSession' = questionsInSession + 1
          /\ missedQuestions' = missedAfter(correct)
          /\ submitted' = [correct |-> correct,
                           streak |-> IF correct THEN newStreak ELSE 0,
                           difficulty |-> newDifficulty]
    /\ isSubmitting' = TRUE
    /\ awardCalls' = awardCalls + 1
    /\ qpc' = "awardXP"
    /\ lastSubmitRejected' = FALSE
    /\ UNCHANGED <<mode, userGrade, loading, operation, correctAnswer,
                   showSummary, showPlaySummary, sessionXP, autoAdvanceRef,
                   timers, loads, issued, presented, saveCalls, failures, unscored>>
    /\ UNCHANGED <<chVars, xpVars, dbVars, fnVars>>

\* handleSubmit from the guard to the await of awardXP: the answer is scored
handleSubmit_scored(input) ==
    /\ questionViewShown
    /\ submitAccepted
    /\ correctAnswer # NULL
    /\ operation = "logic_patterns" \/ input # "not a number"
    /\ LET correct == (input = "right")
           newStreak == streakAfter(correct)
           newTotal == sessionStats.total + 1
           newCorrect == IF correct THEN sessionStats.correct + 1 ELSE sessionStats.correct
           newDifficulty == calculateGradeAwareDifficulty(newCorrect, newTotal, userGrade)
       IN /\ isCorrect' = (IF correct THEN "true" ELSE "false")
          /\ currentStreak' = newStreak
          /\ qFeedback' = IF correct THEN "correct" ELSE "not quite"
          /\ sessionStats' = [correct |-> newCorrect, total |-> newTotal,
                              difficulty |-> newDifficulty]
          /\ questionsInSession' = questionsInSession + 1
          /\ missedQuestions' = missedAfter(correct)
          /\ submitted' = [correct |-> correct,
                           streak |-> IF correct THEN newStreak ELSE 0,
                           difficulty |-> newDifficulty]
    /\ isSubmitting' = TRUE
    /\ awardCalls' = awardCalls + 1
    /\ qpc' = "awardXP"
    /\ lastSubmitRejected' = FALSE
    /\ UNCHANGED <<mode, userGrade, loading, operation, correctAnswer,
                   showSummary, showPlaySummary, sessionXP, autoAdvanceRef,
                   timers, loads, issued, presented, saveCalls, failures, unscored>>
    /\ UNCHANGED <<chVars, xpVars, dbVars, fnVars>>

\* handleSubmit_awardXP_settled without the try/catch around awardXP and
\* without the outer finally: a rejected awardXP ends the handler
handleSubmit_awardXP_settled_uncaught ==
    /\ qpc = "awardXP"
    /\ \/ /\ sessionXP' = sessionXP + calculateXPEarned(submitted.correct,
                                       submitted.streak, submitted.difficulty)
          /\ saveCalls' = saveCalls + 1
          /\ qpc' = "saveAnswer"
          /\ UNCHANGED <<failures, submitted>>
       \/ /\ failures < MaxFailures
          /\ failures' = failures + 1
          /\ qpc' = "idle"
          /\ submitted' = NoSubmit
          /\ UNCHANGED <<sessionXP, saveCalls>>
    /\ lastSubmitRejected' = FALSE
    /\ UNCHANGED <<mode, userGrade, loading, operation, correctAnswer,
                   qFeedback, isCorrect, isSubmitting, sessionStats,
                   questionsInSession, missedQuestions, showSummary,
                   showPlaySummary, currentStreak, autoAdvanceRef, timers,
                   loads, issued, presented, awardCalls, unscored>>
    /\ UNCHANGED <<chVars, xpVars, dbVars, fnVars>>

\* awardXP settles: with the XP earned, with its zero-XP fallback, or rejected;
\* handleSubmit then calls saveAnswer
handleSubmit_awardXP_settled ==
    /\ qpc = "awardXP"
    /\ \/ /\ sessionXP' = sessionXP + calculateXPEarned(submitted.correct,
                                       submitted.streak, submitted.difficulty)
          /\ UNCHANGED failures
       \/ /\ failures < MaxFailures
          /\ failures' = failures + 1
          /\ UNCHANGED sessionXP
    /\ saveCalls' = saveCalls + 1
    /\ qpc' = "saveAnswer"
    /\ lastSubmitRejected' = FALSE
    /\ UNCHANGED <<mode, userGrade, loading, operation, correctAnswer,
                   qFeedback, isCorrect, isSubmitting, sessionStats,
                   questionsInSession, missedQuestions, showSummary,
                   showPlaySummary, currentStreak, autoAdvanceRef, timers,
                   loads, submitted, issued, presented, awardCalls, unscored>>
    /\ UNCHANGED <<chVars, xpVars, dbVars, fnVars>>

\* saveAnswer settles (resolved or rejected): the auto-advance timeout is set
\* after a correct answer in play mode, and `finally` clears isSubmitting
handleSubmit_saveAnswer_settled ==
    /\ qpc = "saveAnswer"
    /\ IF submitted.correct /\ mode = "play"
       THEN /\ autoAdvanceRef' = TRUE
            /\ timers' = timers + 1
       ELSE UNCHANGED <<autoAdvanceRef, timers>>
    /\ isSubmitting' = FALSE
    /\ qpc' = "idle"
    /\ submitted' = NoSubmit
    /\ lastSubmitRejected' = FALSE
    /\ UNCHANGED <<mode, userGrade, loading, operation, correctAnswer,
                   qFeedback, isCorrect, sessionStats, questionsInSession,
                   missedQuestions, showSummary, showPlaySummary,
                   currentStreak, sessionXP, loads, issued, presented,
                   awardCalls, saveCalls, failures, unscored>>
    /\ UNCHANGED <<chVars, xpVars, dbVars, fnVars>>

\* the body of handleNextQuestion once the pending timeout has been cleared
nextQuestionBody(timersLeft) ==
    /\ autoAdvanceRef' = FALSE
    /\ timers' = timersLeft
    /\ IF mode = "test" /\ sessionStats.total >= TEST_QUESTION_COUNT
       THEN /\ showSummary' = TRUE
            /\ UNCHANGED <<isCorrect, qFeedback, loading, loads, issued>>
       ELSE /\ isCorrect' = NULL
            /\ qFeedback' = ""
            /\ loading' = TRUE
            /\ loads' = loads + 1
            /\ issued' = issued + 1
            /\ UNCHANGED showSummary
    /\ UNCHANGED <<mode, userGrade, operation, correctAnswer, isSubmitting,
                   sessionStats, questionsInSession, missedQuestions,
                   showPlaySummary, currentStreak, sessionXP, qpc, submitted,
                   presented, awardCalls, saveCalls, failures, unscored>>

\* handleNextQuestion from the Next / Skip Ahead button
handleNextQuestion ==
    /\ questionViewShown
    /\ isCorrect # NULL
    /\ mayLoadAnother
    /\ nextQuestionBody(IF autoAdvanceRef THEN timers - 1 ELSE timers)
    /\ lastSubmitRejected' = FALSE
    /\ UNCHANGED <<chVars, xpVars, dbVars, fnVars>>

\* handleNextQuestion from an auto-advance timeout: the one autoAdvanceRef
\* holds, or an older one that a later setTimeout replaced in the ref
autoAdvance_fires ==
    /\ timers > 0
    /\ mayLoadAnother
    /\ \/ /\ autoAdvanceRef
          /\ nextQuestionBody(timers - 1)
       \/ /\ timers > (IF autoAdvanceRef THEN 1 ELSE 0)
          /\ nextQuestionBody(IF autoAdvanceRef THEN timers - 2 ELSE timers - 1)
    /\ lastSubmitRejected' = FALSE
    /\ UNCHANGED <<chVars, xpVars, dbVars, fnVars>>

\* the End Session button in play mode after at least one scored answer
endSession ==
    /\ questionViewShown
    /\ mode = "play"
    /\ sessionStats.total > 0
    /\ showPlaySummary' = TRUE
    /\ timers' = IF autoAdvanceRef THEN timers - 1 ELSE timers
    /\ autoAdvanceRef' = FALSE
    /\ lastSubmitRejected' = FALSE
    /\ UNCHANGED <<mode, userGrade, loading, operation, correctAnswer,
                   qFeedback, isCorrect, isSubmitting, sessionStats,
                   questionsInSession, missedQuestions, showSummary,
                   currentStreak, sessionXP, loads, qpc,
                   submitted, issued, presented, awardCalls, saveCalls, failures, unscored>>
    /\ UNCHANGED <<chVars, xpVars, dbVars, fnVars>>

NextSession ==
    \/ loadQuestion_done
    \/ loadQuestion_fail
    \/ handleSubmit_rejected
    \/ \E input \in Inputs : handleSubmit_unscored(input)
    \/ \E input \in Inputs : handleSubmit_scored(input)
    \/ handleSubmit_awardXP_settled
    \/ handleSubmit_saveAnswer_settled
    \/ handleNextQuestion
    \/ autoAdvance_fires
    \/ endSession

(***************************************************************************)
(* Part 4 - the user profile (services/databaseService.js)                 *)
(***************************************************************************)

\* the users document has no profile fields yet (name absent)
NoProfile == [name |-> NULL, grade |-> 0, totalQuestions |-> 0, accuracy |-> 0]

\* the userData objects the registration form passes (name, parseInt(grade))
ProfileData == {[name |-> "Alice", grade |-> 3], [name |-> "Alice", grade |-> 5]}

\* saveUserProfile: setDoc(doc(db, 'users', userId), {...}) without options
\* replaces the document, so the fields that are not written are removed
saveUserProfile(userData) ==
    /\ userProfile' = [name |-> userData.name, grade |-> userData.grade,
                       totalQuestions |-> 0, accuracy |-> 0]
    /\ userDoc' = EmptyDoc
    /\ UNCHANGED <<today, xpc, xcall, xcur, xres, xfail, xpInit, xpSum,
                   awards, failedCalls>>
    /\ UNCHANGED <<chVars, qVars, fnVars>>

\* the registration form and awardXP calls of one client, in any order
NextProfile ==
    \/ \E userData \in ProfileData : saveUserProfile(userData)
    \/ awardXP_call("p1")
    \/ awardXP_getUserXP("p1")
    \/ awardXP_write("p1")

\* JavaScript numbers are IEEE 754 doubles.  A positive double is kept as
\* its 53-bit significand in three parts and the exponent of its leading
\* bit: [hi, mid, lo, exp] is (hi * 2^40 + mid * 2^20 + lo) * 2^(exp - 52),
\* with 2^12 <= hi < 2^13 and mid, lo < 2^20, so that no intermediate value
\* passes 2^31.
RECURSIVE pow2(_)
pow2(k) == IF k = 0 THEN 1 ELSE 2 * pow2(k - 1)

\* the significand plus one unit in the last place when `up`
roundedDouble(hi, mid, lo, exp, up) ==
    LET lo1 == IF up THEN lo + 1 ELSE lo
        mid1 == mid + (lo1 \div pow2(20))
        hi1 == hi + (mid1 \div pow2(20))
    IN IF hi1 = pow2(13)
       THEN [hi |-> pow2(12), mid |-> 0, lo |-> 0, exp |-> exp + 1]
       ELSE [hi |-> hi1, mid |-> mid1 % pow2(20), lo |-> lo1 % pow2(20), exp |-> exp]

\* the smallest k with a * 2^k >= b
RECURSIVE normShift(_, _, _)
normShift(a, b, k) == IF a >= b THEN k ELSE normShift(2 * a, b, k + 1)

\* a / b in double arithmetic (round to nearest, ties to even),
\* for 0 < a <= b < 2^11
doubleDivide(a, b) ==
    LET k == normShift(a, b, 0)
        n1 == (a * pow2(k) - b) * pow2(12)
        n2 == (n1 % b) * pow2(20)
        n3 == (n2 % b) * pow2(20)
        lo == n3 \div b
        rest == n3 % b
        up == 2 * rest > b \/ (2 * rest = b /\ lo % 2 = 1)
    IN roundedDouble(pow2(12) + (n1 \div b), n2 \div b, lo, 0 - k, up)

\* the smallest e with n < 2^(13 + e)
RECURSIVE extraBits(_, _)
extraBits(n, e) == IF n < pow2(13 + e) THEN e ELSE extraBits(n, e + 1)

\* x * m in double arithmetic, for an integer 2 <= m < 2^7
doubleTimes(x, m) ==
    LET plo == x.lo * m
        pmid == x.mid * m + (plo \div pow2(20))
        phi == x.hi * m + (pmid \div pow2(20))
        rmid == pmid % pow2(20)
        rlo == plo % pow2(20)
        e == extraBits(phi, 0)
        hi == phi \div pow2(e)
        mid == (phi % pow2(e)) * pow2(20 - e) + (rmid \div pow2(e))
        lo == (rmid % pow2(e)) * pow2(20 - e) + (rlo \div pow2(e))
        dropped == rlo % pow2(e)
        up == 2 * dropped > pow2(e) \/ (2 * dropped = pow2(e) /\ lo % 2 = 1)
    IN roundedDouble(hi, mid, lo, x.exp + e, up)

\* Math.round of a positive double below 2^12: the nearest integer, a
\* fraction of one half going up
mathRound(x) ==
    IF x.exp < -1 THEN 0
    ELSE IF x.exp = -1 THEN 1
    ELSE (x.hi \div pow2(12 - x.exp)) + ((x.hi \div pow2(11 - x.exp)) % 2)

\* Math.round((correct / total) * 100), 0 <= correct <= total, total > 0
roundedPercent(correct, total) ==
    IF correct = 0 THEN 0
    ELSE mathRound(doubleTimes(doubleDivide(correct, total), 100))

\* `a.operation || 'general'`
operationOf(a) == IF a.operation = NULL THEN "general" ELSE a.operation

\* the keys of `areas`, in the order the forEach inserts them
areaNames(history) ==
    LET names == {operationOf(history[i]) : i \in 1..Len(history)}
        first(n) == CHOOSE i \in 1..Len(history) :
                        /\ operationOf(history[i]) = n
                        /\ \A j \in 1..(i - 1) : operationOf(history[j]) # n
    IN [k \in 1..Cardinality(names) |->
           CHOOSE n \in names :
               Cardinality({o \in names : first(o) < first(n)}) = k - 1]

\* Object.entries(areas).map(...): name, rounded accuracy and total of each
areaEntries(history) ==
    LET names == areaNames(history)
        of(n) == {i \in 1..Len(history) : operationOf(history[i]) = n}
    IN [k \in 1..Len(names) |->
           [name |-> names[k],
            accuracy |-> roundedPercent(
                Cardinality({i \in of(names[k]) : history[i].correct}),
                Cardinality(of(names[k]))),
            total |-> Cardinality(of(names[k]))]]

\* entries.sort((a, b) => a.accuracy - b.accuracy); the sort is stable
sortByAccuracy(entries) ==
    LET before(k) == {j \in 1..Len(entries) :
                         \/ entries[j].accuracy < entries[k].accuracy
                         \/ entries[j].accuracy = entries[k].accuracy /\ j < k}
    IN [p \in 1..Len(entries) |->
           entries[CHOOSE k \in 1..Len(entries) : Cardinality(before(k)) = p - 1]]

\* the loop that counts correct answers from the end of the history
streakOf(history) ==
    LET wrong == {i \in 1..Len(history) : ~history[i].correct}
    IN IF wrong = {} THEN Len(history)
       ELSE Len(history) - (CHOOSE i \in wrong : \A j \in wrong : j <= i)

\* getUserStats, given the history getUserAnswerHistory returned
getUserStats(history) ==
    IF Len(history) = 0
    THEN [totalQuestions |-> 0, accuracy |-> 0, streak |-> 0, weakAreas |-> <<>>]
    ELSE LET totalQuestions == Len(history)
             correctAnswers == Cardinality({i \in 1..Len(history) : history[i].correct})
         IN [totalQuestions |-> totalQuestions,
             accuracy |-> roundedPercent(correctAnswers, totalQuestions),
             streak |-> streakOf(history),
             weakAreas |-> sortByAccuracy(areaEntries(history))]

(***************************************************************************)
(* Part 5 - pure helpers, called once with arguments from bounded sets     *)
(***************************************************************************)

NoFnCall == [fn |-> "none"]
NoFnResult == [returned |-> FALSE]

\* the largest xp passed to getLevelForXP and xpToNextLevel
MaxXP == 5100
\* the largest streak passed to calculateXPEarned
MaxStreak == 12
\* the largest total passed to calculateGradeAwareDifficulty
MaxTotal == 6

\* the longest history in which every answer is chosen freely
MaxHistory == 3
\* the longest run of equal answers in the longer histories
MaxRun == 23

\* the answer documents of a history
Answers == [correct : BOOLEAN, operation : {"addition", "subtraction", NULL}]

\* `wrong` incorrect answers followed by `right` correct ones, one operation
runHistory(wrong, right) ==
    [i \in 1..(wrong + right) |-> [correct |-> i > wrong, operation |-> "addition"]]

\* history arguments: every history up to MaxHistory answers, and the
\* histories of two runs
Histories ==
    UNION {[1..n -> Answers] : n \in 0..MaxHistory}
        \cup {runHistory(wrong, right) : wrong \in 0..MaxRun, right \in 0..MaxRun}

\* xp arguments: every value up to MaxXP, and one far beyond the last level
XPInputs == 0..MaxXP \cup {99999}

\* grade arguments: the grades of the table and one it does not have
GradeInputs == Grades \cup {"other"}

\* the amounts calculateXPEarned returns
EarnedAmounts ==
    {calculateXPEarned(correct, streak, difficulty) :
        correct \in BOOLEAN, streak \in 0..MaxStreak, difficulty \in Difficulties}

InitFn ==
    /\ fnResult = NoFnResult
    /\ \/ \E xp \in XPInputs : fnCall = [fn |-> "getLevelForXP", xp |-> xp]
       \/ \E xp \in XPInputs : fnCall = [fn |-> "xpToNextLevel", xp |-> xp]
       \/ \E correct \in BOOLEAN, streak \in 0..MaxStreak, difficulty \in Difficulties :
             fnCall = [fn |-> "calculateXPEarned", correct |-> correct,
                       streak |-> streak, difficulty |-> difficulty]
       \/ \E total1 \in 0..MaxTotal, total2 \in 0..MaxTotal, grade \in GradeInputs :
             \E correct1 \in 0..total1, correct2 \in 0..total2 :
                fnCall = [fn |-> "calculateGradeAwareDifficulty",
                          correct1 |-> correct1, total1 |-> total1,
                          correct2 |-> correct2, total2 |-> total2,
                          grade |-> grade]
       \/ \E history \in Histories :
             fnCall = [fn |-> "getUserStats", history |-> history]
       \/ \E totalXP \in XPInputs, xpEarned \in EarnedAmounts :
             fnCall = [fn |-> "awardXP", totalXP |-> totalXP, xpEarned |-> xpEarned]

returns(value) ==
    /\ ~fnResult.returned
    /\ fnResult' = [returned |-> TRUE, value |-> value]
    /\ UNCHANGED fnCall
    /\ UNCHANGED <<chVars, xpVars, qVars, dbVars>>

call_getLevelForXP ==
    /\ fnCall.fn = "getLevelForXP"
    /\ returns(getLevelForXP(fnCall.xp))

call_xpToNextLevel ==
    /\ fnCall.fn = "xpToNextLevel"
    /\ returns(xpToNextLevel(fnCall.xp))

call_calculateXPEarned ==
    /\ fnCall.fn = "calculateXPEarned"
    /\ returns(calculateXPEarned(fnCall.correct, fnCall.streak, fnCall.difficulty))

\* two calls with the same grade; the difficulty fields of the two results
call_calculateGradeAwareDifficulty ==
    /\ fnCall.fn = "calculateGradeAwareDifficulty"
    /\ returns(<<calculateGradeAwareDifficulty(fnCall.correct1, fnCall.total1, fnCall.grade),
                 calculateGradeAwareDifficulty(fnCall.correct2, fnCall.total2, fnCall.grade)>>)

call_getUserStats ==
    /\ fnCall.fn = "getUserStats"
    /\ returns(getUserStats(fnCall.history))

\* what awardXP returns for a stored totalXP and an earned amount when its
\* read and its write succeed
call_awardXP ==
    /\ fnCall.fn = "awardXP"
    /\ LET data == [totalXP |-> fnCall.totalXP, level |-> getLevelForXP(fnCall.totalXP),
                    dailyQuestions |-> 1, dailyGoal |-> DEFAULT_DAILY_GOAL,
                    lastActiveDate |-> today]
           call == [xpEarned |-> fnCall.xpEarned, today |-> today]
       IN returns(awardXP_result(getUserXP(data, today), call))

NextFn ==
    \/ call_getLevelForXP
    \/ call_xpToNextLevel
    \/ call_calculateXPEarned
    \/ call_calculateGradeAwareDifficulty
    \/ call_getUserStats
    \/ call_awardXP

(***************************************************************************)
(* Part 6: answers read from text (ModuleSelector.jsx, AnalyticsDashboard) *)
(***************************************************************************)

\* A text is a sequence of one-character strings.  Characters outside ASCII
\* are written by name: "sqrt" and "cbrt" are the radical signs, "times" is
\* the multiplication sign and "sup0" ... "sup9" are the superscript digits.
DecimalDigits == <<"0", "1", "2", "3", "4", "5", "6", "7", "8", "9">>
DigitChars == {DecimalDigits[i] : i \in 1..10}
SpaceChars == {" "}
UpperChars == <<"A", "B", "C", "D", "E", "F", "G", "H", "I", "J", "K", "L", "M",
                "N", "O", "P", "Q", "R", "S", "T", "U", "V", "W", "X", "Y", "Z">>
LowerChars == <<"a", "b", "c", "d", "e", "f", "g", "h", "i", "j", "k", "l", "m",
                "n", "o", "p", "q", "r", "s", "t", "u", "v", "w", "x", "y", "z">>
SuperscriptChars == <<"sup0", "sup1", "sup2", "sup3", "sup4",
                      "sup5", "sup6", "sup7", "sup8", "sup9">>

\* A number a function returns is kept as the exact fraction num / den of
\* the quotient the code computes; nan marks NaN.
NaN == [nan |-> TRUE, num |-> 0, den |-> 1]
number(num, den) == [nan |-> FALSE, num |-> num, den |-> den]

\* parseInt of a run of decimal digits
RECURSIVE decimalValue(_)
decimalValue(digits) ==
    IF digits = <<>> THEN 0
    ELSE decimalValue(SubSeq(digits, 1, Len(digits) - 1)) * 10
           + ((CHOOSE i \in 1..10 : DecimalDigits[i] = digits[Len(digits)]) - 1)

\* String(n) of a non-negative integer
RECURSIVE decimalString(_)
decimalString(n) ==
    IF n < 10 THEN <<DecimalDigits[n + 1]>>
    ELSE Append(decimalString(n \div 10), DecimalDigits[(n % 10) + 1])

\* Math.pow on non-negative integers
RECURSIVE pow(_, _)
pow(base, exp) == IF exp = 0 THEN 1 ELSE base * pow(base, exp - 1)

\* the character at position k, "" past either end of the text
at(s, k) == IF k \in 1..Len(s) THEN s[k] ELSE ""

\* where the longest run of characters of class starting at position i ends
\* (the position after it): what \d+ , \d* and \s* consume
spanEnd(s, i, class) ==
    IF i > Len(s) THEN i
    ELSE CHOOSE j \in i..(Len(s) + 1) :
             /\ \A k \in i..(j - 1) : s[k] \in class
             /\ j = Len(s) + 1 \/ s[j] \notin class

\* String.prototype.match without the g flag: the leftmost of the positions
\* where the pattern can match, 0 if there is none
leftmost(positions) ==
    IF positions = {} THEN 0
    ELSE CHOOSE p \in positions : \A q \in positions : p <= q

\* the literal text stands at position i
matchesAt(s, i, literal) ==
    /\ i + Len(literal) - 1 <= Len(s)
    /\ SubSeq(s, i, i + Len(literal) - 1) = literal

\* String.prototype.trim
trim(s) ==
    IF \A k \in 1..Len(s) : s[k] \in SpaceChars THEN <<>>
    ELSE LET first == CHOOSE i \in 1..Len(s) :
                          s[i] \notin SpaceChars /\ \A k \in 1..(i - 1) : s[k] \in SpaceChars
             last == CHOOSE j \in 1..Len(s) :
                         s[j] \notin SpaceChars /\ \A k \in (j + 1)..Len(s) : s[k] \in SpaceChars
         IN SubSeq(s, first, last)

\* String.prototype.toLowerCase
toLowerCase(s) ==
    [k \in 1..Len(s) |->
        IF \E i \in 1..26 : UpperChars[i] = s[k]
        THEN LowerChars[CHOOSE i \in 1..26 : UpperChars[i] = s[k]]
        ELSE s[k]]

\* parseFloat of a trimmed text: the longest prefix that is a decimal literal
parseFloat(s) ==
    IF s = <<>> THEN NaN
    ELSE LET p == IF s[1] \in {"-", "+"} THEN 2 ELSE 1
             a == spanEnd(s, p, DigitChars)
             hasPoint == a <= Len(s) /\ s[a] = "."
             b == IF hasPoint THEN spanEnd(s, a + 1, DigitChars) ELSE a
             fractionLen == IF hasPoint THEN b - (a + 1) ELSE 0
             magnitude == decimalValue(SubSeq(s, p, a - 1)) * pow(10, fractionLen)
                            + (IF hasPoint THEN decimalValue(SubSeq(s, a + 1, b - 1)) ELSE 0)
         IN IF a = p /\ fractionLen = 0 THEN NaN
            ELSE number(IF s[1] = "-" THEN 0 - magnitude ELSE magnitude,
                        pow(10, fractionLen))

\* parseFractionInput that divides without looking at the denominator
parseFractionInput_anyDenominator(input) ==
    LET s == trim(input)
        negative == s[1] = "-"
        a == spanEnd(s, 1, DigitChars)
        b == spanEnd(s, a, SpaceChars)
        c == spanEnd(s, b, DigitChars)
        p == IF negative THEN 2 ELSE 1
        n == spanEnd(s, p, DigitChars)
        slashAfter(i) == spanEnd(s, i, SpaceChars)
        denAfter(i) == spanEnd(s, slashAfter(i) + 1, SpaceChars)
        denominatorAt(i) ==
            /\ at(s, slashAfter(i)) = "/"
            /\ at(s, denAfter(i)) \in DigitChars
            /\ spanEnd(s, denAfter(i), DigitChars) = Len(s) + 1
        den(i) == decimalValue(SubSeq(s, denAfter(i), Len(s)))
    IN IF s = <<>> THEN NaN
       ELSE IF a > 1 /\ b > a /\ c > b /\ denominatorAt(c)
       THEN number(decimalValue(SubSeq(s, 1, a - 1)) * den(c)
                     + decimalValue(SubSeq(s, b, c - 1)), den(c))
       ELSE IF n > p /\ denominatorAt(n)
       THEN number(IF negative THEN 0 - decimalValue(SubSeq(s, p, n - 1))
                               ELSE decimalValue(SubSeq(s, p, n - 1)), den(n))
       ELSE parseFloat(s)

\* parseFractionInput.  mixedMatch is /^(\d+)\s+(\d+)\s*\/\s*(\d+)$/ and
\* fractionMatch is /^(-?\d+)\s*\/\s*(\d+)$/ ; the end of both, \s*\/\s*(\d+)$
\* after the numerator that ends before position i, is denominatorAt(i).
parseFractionInput(input) ==
    LET trimmed == trim(input)
        s == trimmed
        negative == s[1] = "-"
        a == spanEnd(s, 1, DigitChars)
        b == spanEnd(s, a, SpaceChars)
        c == spanEnd(s, b, DigitChars)
        p == IF negative THEN 2 ELSE 1
        n == spanEnd(s, p, DigitChars)
        slashAfter(i) == spanEnd(s, i, SpaceChars)
        denAfter(i) == spanEnd(s, slashAfter(i) + 1, SpaceChars)
        denominatorAt(i) ==
            /\ at(s, slashAfter(i)) = "/"
            /\ at(s, denAfter(i)) \in DigitChars
            /\ spanEnd(s, denAfter(i), DigitChars) = Len(s) + 1
        den(i) == decimalValue(SubSeq(s, denAfter(i), Len(s)))
        mixedMatch == a > 1 /\ b > a /\ c > b /\ denominatorAt(c)
        fractionMatch == n > p /\ denominatorAt(n)
    IN IF trimmed = <<>> THEN NaN
       ELSE IF mixedMatch
       THEN LET whole == decimalValue(SubSeq(s, 1, a - 1))
                num == decimalValue(SubSeq(s, b, c - 1))
            IN IF den(c) # 0 THEN number(whole * den(c) + num, den(c)) ELSE NaN
       ELSE IF fractionMatch
       THEN LET num == IF negative THEN 0 - decimalValue(SubSeq(s, p, n - 1))
                                   ELSE decimalValue(SubSeq(s, p, n - 1))
            IN IF den(n) # 0 THEN number(num, den(n)) ELSE NaN
       ELSE parseFloat(trimmed)

\* AnalyticsDashboard.jsx answersMatch, with parseAnswer: /^-?\d+\/\d+$/ is
\* n / d, everything else goes to parseFloat; two numbers match when they
\* differ by less than 0.01
answersMatch(userAnswer, answer) ==
    LET u == toLowerCase(trim(userAnswer))
        c == toLowerCase(trim(answer))
        parseAnswer(str) ==
            LET s == trim(str)
                negative == s # <<>> /\ s[1] = "-"
                p == IF negative THEN 2 ELSE 1
                a == spanEnd(s, p, DigitChars)
                f == spanEnd(s, a + 1, DigitChars)
            IN IF /\ s # <<>> /\ a > p
                  /\ at(s, a) = "/"
                  /\ f > a + 1 /\ f = Len(s) + 1
               THEN LET n == IF negative THEN 0 - decimalValue(SubSeq(s, p, a - 1))
                                         ELSE decimalValue(SubSeq(s, p, a - 1))
                        d == decimalValue(SubSeq(s, a + 1, Len(s)))
                    IN IF d # 0 THEN number(n, d) ELSE NaN
               ELSE parseFloat(s)
        uNum == parseAnswer(u)
        cNum == parseAnswer(c)
        difference == uNum.num * cNum.den - cNum.num * uNum.den
    IN IF u = c THEN TRUE
       ELSE IF ~uNum.nan /\ ~cNum.nan
       THEN 100 * (IF difference < 0 THEN 0 - difference ELSE difference)
              < uNum.den * cNum.den
       ELSE FALSE

\* the answer generateChallengeQuestions stores for question i (from 0),
\* given what generateQuestion did: it threw, or it returned a null answer
\* (rule-based question), a number or a text
storedAnswer(i, result) ==
    IF result.threw THEN decimalString(i + 5)
    ELSE IF result.answer = "number" THEN decimalString(result.n)
    ELSE IF result.answer = "text" THEN result.text
    ELSE <<>>

\* lines 559-638 of calculateAnswer: roots and powers, tried for every
\* operation, in the order of the code.  Each matcher gives the position of
\* the sign its leftmost match stands on, 0 if it does not match.  The
\* result has kind "number", or "none" when control goes on to line 640.
exponentsAndRoots(question) ==
    LET s == question
        lower == toLowerCase(s)
        SuperscriptSet == {SuperscriptChars[i] : i \in 1..10}
        answerNumber(x) == [kind |-> "number", value |-> x, text |-> <<>>]
        \* for (const ch of expStr) exp = exp * 10 + (superscriptMap[ch] || 0)
        superscriptValue(expStr) ==
            decimalValue([k \in 1..Len(expStr) |->
                DecimalDigits[CHOOSE i \in 1..10 : SuperscriptChars[i] = expStr[k]]])
        \* where the run of characters of class that ends at position j starts
        spanStart(j, class) ==
            IF j < 1 THEN 1
            ELSE CHOOSE i \in 1..(j + 1) :
                     /\ \A k \in i..j : s[k] \in class
                     /\ i = 1 \/ s[i - 1] \notin class
        \* the (\d+) group that ends at position j, and the one that starts at i
        digitsEndingAt(j) == decimalValue(SubSeq(s, spanStart(j, DigitChars), j))
        digitsFrom(i) == decimalValue(SubSeq(s, i, spanEnd(s, i, DigitChars) - 1))
        \* the position before the white space that ends before position k
        beforeSpaces(k) == spanStart(k - 1, SpaceChars) - 1
        afterSpaces(k) == spanEnd(s, k, SpaceChars)
        \* Math.sqrt and Math.cbrt: the root if it is an integer, else
        \* Math.round(root * 100) / 100
        squareRootAnswer(val) ==
            IF \E r \in 0..val : r * r = val
            THEN number(CHOOSE r \in 0..val : r * r = val, 1)
            ELSE number(CHOOSE m \in 0..(100 * val) :
                            /\ (2 * m - 1) * (2 * m - 1) <= 40000 * val
                            /\ 40000 * val < (2 * m + 1) * (2 * m + 1), 100)
        cubeRootAnswer(val) ==
            IF \E r \in 0..val : r * r * r = val
            THEN number(CHOOSE r \in 0..val : r * r * r = val, 1)
            ELSE number(CHOOSE m \in 0..(100 * val) :
                            /\ (2 * m - 1) * (2 * m - 1) * (2 * m - 1) <= 8000000 * val
                            /\ 8000000 * val < (2 * m + 1) * (2 * m + 1) * (2 * m + 1),
                        100)
        \* /√(\d+)/ and /∛(\d+)/
        radicalMatch(sign) ==
            leftmost({k \in 1..Len(s) : s[k] = sign /\ at(s, k + 1) \in DigitChars})
        \* /(\d+)\s*\^\s*(\d+)/
        caretMatch ==
            leftmost({k \in 1..Len(s) :
                         /\ s[k] = "^"
                         /\ at(s, beforeSpaces(k)) \in DigitChars
                         /\ at(s, afterSpaces(k + 1)) \in DigitChars})
        \* /(\d+)([⁰¹²³⁴⁵⁶⁷⁸⁹]+)/
        superMatch ==
            leftmost({k \in 1..Len(s) :
                         s[k] \in SuperscriptSet /\ at(s, k - 1) \in DigitChars})
        \* (?:of\s*)?(\d+) at position q: where the digits start, 0 if no match
        optionalOfNumber(q) ==
            IF at(s, q) \in DigitChars THEN q
            ELSE IF /\ matchesAt(lower, q, <<"o", "f">>)
                    /\ at(s, afterSpaces(q + 2)) \in DigitChars
            THEN afterSpaces(q + 2)
            ELSE 0
        ToThePower == <<"t", "o", " ", "t", "h", "e", " ", "p", "o", "w", "e", "r", " ">>
        SquareRoot == <<"s", "q", "u", "a", "r", "e", " ", "r", "o", "o", "t", " ">>
        CubeRoot == <<"c", "u", "b", "e", " ", "r", "o", "o", "t", " ">>
        \* /(\d+)\s*to the power (?:of\s*)?(\d+)/i
        powerMatch ==
            leftmost({p \in 1..Len(s) :
                         /\ matchesAt(lower, p, ToThePower)
                         /\ at(s, beforeSpaces(p)) \in DigitChars
                         /\ optionalOfNumber(p + Len(ToThePower)) # 0})
        \* /square root (?:of\s*)?(\d+)/i and /cube root (?:of\s*)?(\d+)/i
        rootWordMatch(words) ==
            leftmost({p \in 1..Len(s) :
                         /\ matchesAt(lower, p, words)
                         /\ optionalOfNumber(p + Len(words)) # 0})
        \* /(\d+)([⁰-⁹]+)\s*[×x]\s*(\d+)([⁰-⁹]+)/ : the first superscript
        \* digit of the first power
        secondBase(k) == afterSpaces(afterSpaces(spanEnd(s, k, SuperscriptSet)) + 1)
        expMulMatch ==
            leftmost({k \in 1..Len(s) :
                         /\ s[k] \in SuperscriptSet /\ at(s, k - 1) \in DigitChars
                         /\ at(s, afterSpaces(spanEnd(s, k, SuperscriptSet))) \in {"times", "x"}
                         /\ at(s, secondBase(k)) \in DigitChars
                         /\ at(s, spanEnd(s, secondBase(k), DigitChars)) \in SuperscriptSet})
    IN IF radicalMatch("sqrt") # 0
       THEN answerNumber(squareRootAnswer(digitsFrom(radicalMatch("sqrt") + 1)))
       ELSE IF radicalMatch("cbrt") # 0
       THEN answerNumber(cubeRootAnswer(digitsFrom(radicalMatch("cbrt") + 1)))
       ELSE IF caretMatch # 0
       THEN answerNumber(number(pow(digitsEndingAt(beforeSpaces(caretMatch)),
                                    digitsFrom(afterSpaces(caretMatch + 1))), 1))
       ELSE IF superMatch # 0
       THEN LET base == digitsEndingAt(superMatch - 1)
                expStr == SubSeq(s, superMatch, spanEnd(s, superMatch, SuperscriptSet) - 1)
            IN answerNumber(number(pow(base, superscriptValue(expStr)), 1))
       ELSE IF powerMatch # 0
       THEN answerNumber(number(
                pow(digitsEndingAt(beforeSpaces(powerMatch)),
                    digitsFrom(optionalOfNumber(powerMatch + Len(ToThePower)))), 1))
       ELSE IF rootWordMatch(SquareRoot) # 0
       THEN answerNumber(squareRootAnswer(
                digitsFrom(optionalOfNumber(rootWordMatch(SquareRoot) + Len(SquareRoot)))))
       ELSE IF rootWordMatch(CubeRoot) # 0
       THEN answerNumber(cubeRootAnswer(
                digitsFrom(optionalOfNumber(rootWordMatch(CubeRoot) + Len(CubeRoot)))))
       ELSE IF expMulMatch # 0
       THEN LET k == expMulMatch
                v == spanEnd(s, secondBase(k), DigitChars)
                base1 == digitsEndingAt(k - 1)
                exp1 == superscriptValue(SubSeq(s, k, spanEnd(s, k, SuperscriptSet) - 1))
                base2 == digitsFrom(secondBase(k))
                exp2 == superscriptValue(SubSeq(s, v, spanEnd(s, v, SuperscriptSet) - 1))
            IN IF base1 = base2
               THEN answerNumber(number(pow(base1, exp1 + exp2), 1))
               ELSE answerNumber(number(pow(base1, exp1) * pow(base2, exp2), 1))
       ELSE [kind |-> "none", value |-> NaN, text |-> <<>>]

\* the literal table of lines 664-673: the texts looked for with
\* question.includes, in the order of the code, and the answers
LiteralTable ==
    <<[text |-> <<"2", ",", " ", "4", ",", " ", "6", ",", " ", "8">>, answer |-> 10],
      [text |-> <<"1", ",", " ", "1", ",", " ", "2", ",", " ", "3", ",", " ",
                  "5", ",", " ", "8">>, answer |-> 13],
      [text |-> <<"5", ",", " ", "5", ",", " ", "1", "0", ",", " ", "1", "5",
                  ",", " ", "2", "5">>, answer |-> 40],
      [text |-> <<"5", ",", " ", "1", "0", ",", " ", "1", "5", ",", " ",
                  "_", "_", "_">>, answer |-> 20],
      [text |-> <<"5", ",", " ", "1", "0", ",", " ", "1", "5", ",", " ", "_", ",">>,
       answer |-> 20],
      [text |-> <<"1", ",", " ", "4", ",", " ", "9", ",", " ", "1", "6">>, answer |-> 25],
      [text |-> <<"1", "0", ",", " ", "2", "0", ",", " ", "3", "0", ",", " ",
                  "4", "0">>, answer |-> 50],
      [text |-> <<"3", ",", " ", "6", ",", " ", "9", ",", " ", "1", "2">>, answer |-> 15],
      [text |-> <<"1", ",", " ", "3", ",", " ", "5", ",", " ", "7">>, answer |-> 9],
      [text |-> <<"2", ",", " ", "4", ",", " ", "8", ",", " ", "1", "6">>, answer |-> 32],
      [text |-> <<"1", ",", " ", "4", ",", " ", "7", ",", " ", "1", "0">>, answer |-> 13]>>

\* question.match(/\d+/g) with parseInt: every digit run of the text from
\* position i on
RECURSIVE allNumbers(_, _)
allNumbers(s, i) ==
    IF i > Len(s) THEN <<>>
    ELSE IF s[i] \in DigitChars
    THEN <<decimalValue(SubSeq(s, i, spanEnd(s, i, DigitChars) - 1))>>
           \o allNumbers(s, spanEnd(s, i, DigitChars))
    ELSE allNumbers(s, i + 1)

\* line 678 reading every number of the question
sequenceNumbers_wholeQuestion(question) == allNumbers(question, 1)

\* lines 677-680: the numbers of the leftmost match of
\* /(\d+(?:\s*,\s*\d+){2,})/ , or every number of the question when there
\* is no match
sequenceNumbers(question) ==
    LET s == question
        \* \s*,\s*\d+ after a digit run that ends before position e: where
        \* the next number starts, 0 if the run of numbers ends there
        nextInRun(e) ==
            LET c == spanEnd(s, e, SpaceChars)
                d == spanEnd(s, c + 1, SpaceChars)
            IN IF at(s, c) = "," /\ at(s, d) \in DigitChars THEN d ELSE 0
        RECURSIVE runNumbers(_)
        runNumbers(i) ==
            LET e == spanEnd(s, i, DigitChars)
            IN <<decimalValue(SubSeq(s, i, e - 1))>>
                 \o (IF nextInRun(e) = 0 THEN <<>> ELSE runNumbers(nextInRun(e)))
        seqMatch ==
            leftmost({i \in 1..Len(s) :
                         /\ s[i] \in DigitChars /\ at(s, i - 1) \notin DigitChars
                         /\ Len(runNumbers(i)) >= 3})
    IN IF seqMatch # 0 THEN runNumbers(seqMatch) ELSE allNumbers(s, 1)

\* calculateAnswer for the operations 'logic_patterns' and 'addition' up to
\* line 730.  For 'logic_patterns' nothing after line 730 applies and the
\* function returns null; for 'addition' the result "none" stands for the
\* arithmetic patterns of line 732 on.
calculateAnswer(question, op) ==
    LET early == exponentsAndRoots(question)
        answerNumber(x) == [kind |-> "number", value |-> x, text |-> <<>>]
        answerText(t) == [kind |-> "text", value |-> NaN, text |-> t]
        LetterChars == {UpperChars[i] : i \in 1..26} \cup {LowerChars[i] : i \in 1..26}
        isLetter(c) == c \in LetterChars
        \* /[A-Za-z],\s*[A-Za-z],\s*[A-Za-z]/ matches somewhere
        letterMatch ==
            \E i \in 1..Len(question) :
                /\ question[i] \in LetterChars /\ at(question, i + 1) = ","
                /\ LET j == spanEnd(question, i + 2, SpaceChars)
                   IN /\ at(question, j) \in LetterChars /\ at(question, j + 1) = ","
                      /\ at(question, spanEnd(question, j + 2, SpaceChars)) \in LetterChars
        \* toUpperCase().charCodeAt(0) of a letter; String.fromCharCode of the
        \* codes 40 to 90
        charCode(c) ==
            64 + (CHOOSE i \in 1..26 : UpperChars[i] = c \/ LowerChars[i] = c)
        CharsFrom40 == <<"(", ")", "*", "+", ",", "-", ".", "/", "0", "1", "2", "3",
                         "4", "5", "6", "7", "8", "9", ":", ";", "<", "=", ">", "?", "@">>
        fromCharCode(code) ==
            IF code >= 65 THEN UpperChars[code - 64] ELSE CharsFrom40[code - 39]
        \* lines 645-660: question.match(/[A-Za-z]/g) takes every letter of
        \* the question
        letters == SelectSeq(question, isLetter)
        diff == charCode(letters[2]) - charCode(letters[1])
        nextCharCode == charCode(letters[Len(letters)]) + diff
        \* lines 664-673
        literalEntry ==
            leftmost({e \in 1..Len(LiteralTable) :
                         \E i \in 1..Len(question) :
                             matchesAt(question, i, LiteralTable[e].text)})
        \* lines 678-728.  For small integers two quotients are the same
        \* double exactly when the fractions are equal, so the ratio test is
        \* a cross multiplication.
        nums == sequenceNumbers(question)
        n == Len(nums)
        isFibLike == \A i \in 3..n : nums[i] = nums[i - 1] + nums[i - 2]
        isGeometric ==
            /\ nums[1] # 0
            /\ nums[2] # nums[1]
            /\ \A i \in 3..n :
                  nums[i - 1] # 0 /\ nums[i] * nums[1] = nums[2] * nums[i - 1]
        diffs == [i \in 1..(n - 1) |-> nums[i + 1] - nums[i]]
        diffs2 == [i \in 1..(n - 2) |-> diffs[i + 1] - diffs[i]]
        isQuadratic == Len(diffs2) > 0 /\ \A i \in 1..Len(diffs2) : diffs2[i] = diffs2[1]
    IN IF early.kind # "none" THEN early
       ELSE IF op \notin {"logic_patterns", "logic_patterns_problem"}
       THEN [kind |-> "none", value |-> NaN, text |-> <<>>]
       ELSE IF letterMatch
       THEN IF nextCharCode <= 90 THEN answerText(<<fromCharCode(nextCharCode)>>)
            ELSE answerText(<<"E">>)
       ELSE IF literalEntry # 0
       THEN answerNumber(number(LiteralTable[literalEntry].answer, 1))
       ELSE IF n >= 3
       THEN IF isFibLike THEN answerNumber(number(nums[n] + nums[n - 1], 1))
            ELSE IF isGeometric THEN answerNumber(number(nums[n] * nums[2], nums[1]))
            ELSE IF isQuadratic
            THEN answerNumber(number(nums[n] + (diffs[n - 1] + diffs2[1]), 1))
            ELSE answerNumber(number(nums[n] + (nums[n] - nums[n - 1]), 1))
       ELSE [kind |-> "null", value |-> NaN, text |-> <<>>]

\* The arguments of one call.  parseFractionInput gets every text a user
\* can type over a few characters; generateChallengeQuestions gets what
\* generateQuestion did for question i; calculateAnswer gets a number
\* sequence with or without other numbers around it, a sequence of three
\* letters with or without the words of the template before it, or a
\* product of two powers.
MaxInputLen == 5
TypedInputs ==
    UNION {[1..n -> {"0", "1", "2", " ", "/", "-", ".", "x"}] : n \in 0..MaxInputLen}
MaxGenerated == 12
MaxTerm == 9
MaxTerms == 4
MaxBase == 3
MaxExponent == 4

InitAnswer ==
    LET WhatComesNext == <<"W", "h", "a", "t", " ", "c", "o", "m", "e", "s", " ",
                           "n", "e", "x", "t", ":", " ">>
        Blank == <<",", " ", "_", "_", "_", "?">>
        RECURSIVE joinNumbers(_)
        joinNumbers(run) ==
            IF Len(run) = 1 THEN decimalString(run[1])
            ELSE joinNumbers(SubSeq(run, 1, Len(run) - 1)) \o <<",", " ">>
                   \o decimalString(run[Len(run)])
        sequenceQuestion(run, stray) ==
            IF stray
            THEN <<"S", "t", "e", "p", " ", "3", ":", " ">> \o joinNumbers(run) \o Blank
                   \o <<" ", "(", "7", " ", "l", "e", "f", "t", ")">>
            ELSE WhatComesNext \o joinNumbers(run) \o Blank
        letterQuestion(letters, worded) ==
            (IF worded THEN WhatComesNext ELSE <<>>)
              \o <<UpperChars[letters[1]], ",", " ", UpperChars[letters[2]], ",", " ",
                   UpperChars[letters[3]]>> \o Blank
        powerQuestion(base1, exp1, sign, base2, exp2) ==
            <<"W", "h", "a", "t", " ", "i", "s", " ">>
              \o decimalString(base1) \o <<SuperscriptChars[exp1 + 1]>>
              \o <<" ", sign, " ">>
              \o decimalString(base2) \o <<SuperscriptChars[exp2 + 1]>> \o <<"?">>
    IN /\ fnResult = NoFnResult
       /\ \/ \E input \in TypedInputs :
                fnCall = [fn |-> "parseFractionInput", input |-> input]
          \/ \E i \in 0..(CHALLENGE_QUESTION_COUNT - 1) :
                \/ \E threw \in BOOLEAN :
                      fnCall = [fn |-> "generateChallengeQuestions", i |-> i,
                                result |-> [threw |-> threw, answer |-> "null",
                                            n |-> 0, text |-> <<>>]]
                \/ \E n \in 0..MaxGenerated :
                      fnCall = [fn |-> "generateChallengeQuestions", i |-> i,
                                result |-> [threw |-> FALSE, answer |-> "number",
                                            n |-> n, text |-> <<>>]]
                \/ \E letter \in 1..26 :
                      fnCall = [fn |-> "generateChallengeQuestions", i |-> i,
                                result |-> [threw |-> FALSE, answer |-> "text",
                                            n |-> 0, text |-> <<UpperChars[letter]>>]]
          \/ \E n \in 3..MaxTerms : \E run \in [1..n -> 0..MaxTerm], stray \in BOOLEAN :
                fnCall = [fn |-> "calculateAnswer", asked |-> "sequence",
                          op |-> "logic_patterns", run |-> run, stray |-> stray,
                          question |-> sequenceQuestion(run, stray)]
          \/ \E letters \in [1..3 -> 1..26], worded \in BOOLEAN :
                fnCall = [fn |-> "calculateAnswer", asked |-> "letters",
                          op |-> "logic_patterns", letters |-> letters, worded |-> worded,
                          question |-> letterQuestion(letters, worded)]
          \/ \E base1, base2 \in 1..MaxBase, exp1, exp2 \in 0..MaxExponent,
                sign \in {"times", "x"} :
                fnCall = [fn |-> "calculateAnswer", asked |-> "powers", op |-> "addition",
                          base1 |-> base1, exp1 |-> exp1, base2 |-> base2, exp2 |-> exp2,
                          question |-> powerQuestion(base1, exp1, sign, base2, exp2)]

call_parseFractionInput ==
    /\ fnCall.fn = "parseFractionInput"
    /\ returns(parseFractionInput(fnCall.input))

\* one turn of the loop of generateChallengeQuestions: the stored answer
call_generateChallengeQuestions ==
    /\ fnCall.fn = "generateChallengeQuestions"
    /\ returns(storedAnswer(fnCall.i, fnCall.result))

call_calculateAnswer ==
    /\ fnCall.fn = "calculateAnswer"
    /\ returns(calculateAnswer(fnCall.question, fnCall.op))

NextAnswer ==
    \/ call_parseFractionInput
    \/ call_generateChallengeQuestions
    \/ call_calculateAnswer

(***************************************************************************)
(* Specifications.  Each one runs one part of the program; the variables   *)
(* of the other parts stay at an initial value.                            *)
(***************************************************************************)

ParkedXP == InitXPWith(EmptyDoc)
ParkedSession == InitSessionWith("play", "4-5")
ParkedProfile == userProfile = NoProfile
ParkedFn == fnCall = NoFnCall /\ fnResult = NoFnResult

InitChallengeOnly == InitChallenge /\ ParkedXP /\ ParkedSession /\ ParkedProfile /\ ParkedFn
InitXPOnly == InitXP /\ InitChallenge /\ ParkedSession /\ ParkedProfile /\ ParkedFn
InitSessionOnly == InitSession /\ InitChallenge /\ ParkedXP /\ ParkedProfile /\ ParkedFn

\* the creator and two users racing to join; every store call succeeds
SpecChallenge == InitChallengeOnly /\ [][NextChallenge]_vars

\* the creator and one opponent; store calls of submitChallengeAnswer may fail
SpecChallengeFail == InitChallengeOnly /\ [][NextChallengeFail]_vars

\* concurrent awardXP calls for one user
SpecXP == InitXPOnly /\ [][NextXP]_vars

\* one QuestionCard session in play or test mode
SpecSession == InitSessionOnly /\ [][NextSession]_vars

\* one call of a pure helper
InitFnOnly == InitFn /\ InitChallenge /\ ParkedXP /\ ParkedSession /\ ParkedProfile
SpecFn == InitFnOnly /\ [][NextFn]_vars

\* registration and awardXP on one users document
InitProfileOnly == InitXP /\ InitChallenge /\ ParkedSession /\ ParkedProfile /\ ParkedFn
SpecProfile == InitProfileOnly /\ [][NextProfile]_vars

\* one call of a function that reads an answer from text
InitAnswerOnly == InitAnswer /\ InitChallenge /\ ParkedXP /\ ParkedSession /\ ParkedProfile
SpecAnswer == InitAnswerOnly /\ [][NextAnswer]_vars

(***************************************************************************)
(* Claims about challenges                                                 *)
(***************************************************************************)

submitInFlight(u) == cpc[u] \in {"submitRead", "submitWrite"}

\* C1: whenever both answer arrays have reached the number of shared
\* questions and no submitChallengeAnswer call is in flight, the challenge
\* status is 'completed'
C1_CompletedWhenBothDone ==
    (/\ challenge.status # "none"
     /\ Len(challenge.creatorAnswers) >= Len(challenge.questions)
     /\ Len(challenge.opponentAnswers) >= Len(challenge.questions)
     /\ \A u \in Users : ~submitInFlight(u))
    => challenge.status = "completed"

\* C6: once a challenge has been joined, no later join attempt changes
\* opponentId, opponentName, status or startedAt, and every join attempt that
\* ends after that ends with an error
C6_OneJoinWins ==
    [][challenge.status \in {"active", "completed"} =>
        /\ challenge'.opponentId = challenge.opponentId
        /\ challenge'.opponentName = challenge.opponentName
        /\ challenge'.startedAt = challenge.startedAt
        /\ \A u \in Users :
              (cpc[u] \in {"joinQuery", "joinWrite"} /\ cpc'[u] = "idle")
              => (error'[u] # "" /\ challenge'.status = challenge.status)]_vars

statusRank(st) ==
    CASE st = "none" -> 0
      [] st = "waiting" -> 1
      [] st = "active" -> 2
      [] st = "completed" -> 3

\* C7: the status of a challenge only moves forward along
\* waiting -> active -> completed
C7_StatusNeverReverts ==
    [][statusRank(challenge'.status) >= statusRank(challenge.status)]_vars

alignedAnswers(answers) ==
    /\ Len(answers) <= Len(challenge.questions)
    /\ \A k \in 1..Len(answers) : answers[k].q = k

\* C8: each role's stored answer array is no longer than the shared question
\* list and its k-th entry is the answer to the k-th shared question
C8_AnswersAligned ==
    /\ alignedAnswers(challenge.creatorAnswers)
    /\ alignedAnswers(challenge.opponentAnswers)

\* C9: status 'completed' implies that both answer arrays hold at least
\* CHALLENGE_QUESTION_COUNT answers
C9_CompletedImpliesBothFull ==
    challenge.status = "completed" =>
        /\ Len(challenge.creatorAnswers) >= CHALLENGE_QUESTION_COUNT
        /\ Len(challenge.opponentAnswers) >= CHALLENGE_QUESTION_COUNT

(***************************************************************************)
(* Claims about the XP store                                               *)
(***************************************************************************)

awardQuiescent == \A p \in Procs : xpc[p] \in {"idle", "done"}
noStoreFailure == failedCalls = 0

\* C2: when all awardXP calls have returned and no store operation failed,
\* the stored totalXP is the initial totalXP plus the xpEarned of every call
C2_NoLostXP ==
    (awardQuiescent /\ noStoreFailure) => userDoc.totalXP = xpInit + xpSum

\* two calls that both read before either wrote have both returned: each
\* returned total misses the other call's XP
C2_Witness ==
    /\ noStoreFailure
    /\ \A p \in Procs : /\ xpc[p] = "done"
                        /\ xres[p].xpEarned > 0
                        /\ xres[p].totalXP < userDoc.totalXP

\* the level getUserXP reads from the document (`data.level || 1`)
storedLevel == IF userDoc.level = 0 THEN 1 ELSE userDoc.level

\* C3: once the awardXP calls have returned, the stored level is
\* getLevelForXP of the stored totalXP
C3_LevelMatchesXP ==
    awardQuiescent => storedLevel = getLevelForXP(userDoc.totalXP)

\* C4: an awardXP call in which a store operation failed does not throw and
\* returns xpEarned = 0, leveledUp = false and the totalXP, level and
\* dailyQuestions it read before the update
C4_SafeFallback ==
    \A p \in Procs :
        (xpc[p] = "done" /\ xfail[p] # "none") =>
            /\ ~xres[p].threw
            /\ xres[p].xpEarned = 0
            /\ ~xres[p].leveledUp
            /\ xres[p].totalXP = xcur[p].totalXP
            /\ xres[p].level = xcur[p].level
            /\ xres[p].dailyQuestions = xcur[p].dailyQuestions

(***************************************************************************)
(* Claims about the question session                                       *)
(***************************************************************************)

\* C5: while the feedback of a question is shown or a submit is being
\* processed, no event scores again: sessionStats, currentStreak and
\* missedQuestions stay as they are and no further awardXP call is made;
\* sessionXP and the saveAnswer calls move only in the continuation of the
\* submit that is being processed
C5_NoSecondScoring ==
    [][(isSubmitting \/ isCorrect # NULL) =>
          /\ sessionStats' = sessionStats
          /\ currentStreak' = currentStreak
          /\ missedQuestions' = missedQuestions
          /\ awardCalls' = awardCalls
          /\ (qpc # "awardXP" => sessionXP' = sessionXP /\ saveCalls' = saveCalls)]_vars

\* a second submit has just been rejected while the feedback of a scored
\* answer is shown
C5_Witness ==
    /\ lastSubmitRejected
    /\ isCorrect # NULL
    /\ sessionStats.total > 0
    /\ awardCalls = sessionStats.total

\* C10: a test-mode session never presents an 11th question, never scores
\* more than 10 answers, and shows the summary only when 10 questions have
\* been presented and answered
C10_TestEndsAfterTen ==
    mode = "test" =>
        /\ presented <= TEST_QUESTION_COUNT
        /\ sessionStats.total <= TEST_QUESTION_COUNT
        /\ showSummary => (presented = TEST_QUESTION_COUNT
                           /\ sessionStats.total = TEST_QUESTION_COUNT)

\* a submit that handleSubmit accepted: it ended unscored or went on to awardXP
submitStep == unscored' # unscored \/ awardCalls' # awardCalls

\* sessionStats, currentStreak, sessionXP and missedQuestions keep their
\* values and neither awardXP nor saveAnswer is called
nothingScored ==
    /\ sessionStats' = sessionStats
    /\ currentStreak' = currentStreak
    /\ sessionXP' = sessionXP
    /\ missedQuestions' = missedQuestions
    /\ questionsInSession' = questionsInSession
    /\ awardCalls' = awardCalls
    /\ saveCalls' = saveCalls
    /\ qpc' = "idle"

\* C11: a submit whose input to a numeric question is not a number scores
\* nothing and leaves the question open: handleSubmit accepts the next submit
\* to the same question
C11_InvalidNumberResubmit ==
    [][(submitStep /\ qFeedback' = "enter a valid number") =>
          /\ nothingScored
          /\ submitAccepted']_vars

\* C12: a submit to a question whose correctAnswer is null shows the
\* 'unable to extract answer' feedback, scores nothing, calls neither awardXP
\* nor saveAnswer, and leaves the Next button available
C12_NullAnswerUnscored ==
    [][(submitStep /\ correctAnswer = NULL) =>
          /\ qFeedback' = "unable to extract answer"
          /\ nothingScored
          /\ isCorrect' # NULL
          /\ ~isSubmitting'
          /\ questionViewShown']_vars

\* the 'unable to extract answer' feedback is on screen with the Next button
C12_Witness ==
    /\ correctAnswer = NULL
    /\ qFeedback = "unable to extract answer"
    /\ isCorrect = "false"
    /\ ~isSubmitting
    /\ unscored = 1
    /\ awardCalls = sessionStats.total
    /\ saveCalls = sessionStats.total

(***************************************************************************)
(* Further claims about the XP store                                       *)
(***************************************************************************)

\* the setDoc of caller p's awardXP call is applied in this step
awardWritten(p) == xpc[p] = "write" /\ xpc'[p] = "done" /\ xfail'[p] = "none"

\* C13: the write of every awardXP call that ran within one day counts once
\* on top of the stored daily counter: it becomes 1 when the stored
\* lastActiveDate is not that day, and the stored dailyQuestions plus 1
\* otherwise
C13_DailyCountsEveryCall ==
    [][\A p \in Procs :
          (awardWritten(p) /\ xcall[p].today = today) =>
              userDoc'.dailyQuestions =
                  (IF userDoc.lastActiveDate # xcall[p].today THEN 1
                   ELSE userDoc.dailyQuestions + 1)]_vars

\* C20: the write of an awardXP call that earned 0 XP changes only
\* dailyQuestions and lastActiveDate of the document, and the call returns
\* xpEarned = 0 and leveledUp = false
C20_ZeroXPFrame ==
    [][\A p \in Procs :
          (awardWritten(p) /\ xcall[p].xpEarned = 0) =>
              /\ userDoc'.totalXP = userDoc.totalXP
              /\ userDoc'.level = userDoc.level
              /\ userDoc'.dailyGoal = userDoc.dailyGoal
              /\ userDoc'.dailyQuestions = newDaily(xcur[p], xcall[p].today)
              /\ userDoc'.lastActiveDate = xcall[p].today
              /\ xres'[p].xpEarned = 0
              /\ ~xres'[p].leveledUp
              /\ ~xres'[p].threw]_vars

\* a zero-XP call has returned after its write, made while another call had
\* already raised the stored level above the level the zero-XP call read
C20_Witness ==
    \E p \in Procs :
        /\ xpc[p] = "done"
        /\ xfail[p] = "none"
        /\ xcall[p].xpEarned = 0
        /\ xres[p].xpEarned = 0
        /\ userDoc.lastActiveDate = xcall[p].today
        /\ userDoc.totalXP > xcur[p].totalXP
        /\ userDoc.level > xcur[p].level

(***************************************************************************)
(* Claims about the user profile                                           *)
(***************************************************************************)

\* C19: saveUserProfile leaves the fields of the users document that it does
\* not write (totalXP, level, dailyQuestions, dailyGoal, lastActiveDate) as
\* they were stored
C19_ProfileWriteMerges ==
    [][userProfile' # userProfile => userDoc' = userDoc]_vars

(***************************************************************************)
(* Claims about the pure helpers                                           *)
(***************************************************************************)

returned(fn) == fnCall.fn = fn /\ fnResult.returned

\* the threshold table as the level rules state it
StatedThresholds == <<0, 100, 250, 500, 800, 1200, 1700, 2500, 3500, 5000>>

\* the largest 1-based index whose stated threshold is at most xp
statedLevel(xp) ==
    CHOOSE i \in 1..Len(StatedThresholds) :
        /\ StatedThresholds[i] <= xp
        /\ \A j \in 1..Len(StatedThresholds) : StatedThresholds[j] <= xp => j <= i

\* C14: getLevelForXP(xp) is the largest 1-based index whose threshold is at
\* most xp: exactly that index at a threshold, the previous level one below
\* it, and 10 from 5000 on
C14_LevelIsLargestThreshold ==
    returned("getLevelForXP") =>
        LET xp == fnCall.xp
            level == fnResult.value
        IN /\ level = statedLevel(xp)
           /\ \A i \in 1..Len(StatedThresholds) :
                 /\ xp = StatedThresholds[i] => level = i
                 /\ (i > 1 /\ xp = StatedThresholds[i] - 1) => level = i - 1
           /\ xp >= 5000 => level = 10

\* getLevelForXP has returned for a threshold, for the value below one, and
\* for a value beyond the last threshold
C14_Witness ==
    /\ returned("getLevelForXP")
    /\ \/ fnCall.xp = 250 /\ fnResult.value = 3
       \/ fnCall.xp = 249 /\ fnResult.value = 2
       \/ fnCall.xp = 99999 /\ fnResult.value = 10

\* the bonus of each tier as the XP rules state it
statedBonus(difficulty) ==
    CASE difficulty \in {"Very Easy", "Easy"} -> 0
      [] difficulty = "Medium" -> 5
      [] difficulty = "Hard" -> 10
      [] difficulty = "Very Hard" -> 15

\* C15: calculateXPEarned is 0 for an incorrect answer and otherwise
\* 10 + min(2 * streak, 20) + the tier bonus, which lies between 10 and 45
C15_XPEarnedFormula ==
    returned("calculateXPEarned") =>
        LET xp == fnResult.value
        IN IF ~fnCall.correct THEN xp = 0
           ELSE /\ xp = 10 + Min(2 * fnCall.streak, 20) + statedBonus(fnCall.difficulty)
                /\ xp >= 10
                /\ xp <= 45

\* calculateXPEarned has returned 45 for a streak beyond the cap
C15_Witness ==
    /\ returned("calculateXPEarned")
    /\ fnCall.correct
    /\ fnCall.streak > 10
    /\ fnCall.difficulty = "Very Hard"
    /\ fnResult.value = 45

\* C16: below 5000, xpToNextLevel(xp) is the threshold of the next level
\* minus xp, is positive, and is exactly what reaches the next level; from
\* 5000 on it is 0
C16_XPToNextLevel ==
    returned("xpToNextLevel") =>
        LET xp == fnCall.xp
            toNext == fnResult.value
            level == getLevelForXP(xp)
        IN IF xp >= 5000 THEN toNext = 0
           ELSE /\ toNext = StatedThresholds[level + 1] - xp
                /\ toNext > 0
                /\ getLevelForXP(xp + toNext) = level + 1
                /\ getLevelForXP(xp + toNext - 1) = level

\* xpToNextLevel has returned for a value inside a level and for the maximum
C16_Witness ==
    /\ returned("xpToNextLevel")
    /\ \/ fnCall.xp = 100 /\ fnResult.value = 150
       \/ fnCall.xp = 5000 /\ fnResult.value = 0

tierRank(difficulty) ==
    CASE difficulty = "Very Easy" -> 1
      [] difficulty = "Easy" -> 2
      [] difficulty = "Medium" -> 3
      [] difficulty = "Hard" -> 4
      [] difficulty = "Very Hard" -> 5

\* correct1 / total1 <= correct2 / total2, an empty record counting as 0
accuracyAtMost(correct1, total1, correct2, total2) ==
    LET n1 == IF total1 = 0 THEN 0 ELSE correct1
        d1 == IF total1 = 0 THEN 1 ELSE total1
        n2 == IF total2 = 0 THEN 0 ELSE correct2
        d2 == IF total2 = 0 THEN 1 ELSE total2
    IN n1 * d2 <= n2 * d1

\* C17: for one grade, a record with at most the accuracy of another never
\* gets a higher tier from calculateGradeAwareDifficulty
C17_DifficultyMonotonic ==
    returned("calculateGradeAwareDifficulty") =>
        (accuracyAtMost(fnCall.correct1, fnCall.total1, fnCall.correct2, fnCall.total2)
            => tierRank(fnResult.value[1]) <= tierRank(fnResult.value[2]))

\* an empty record got a lower tier than a record with answers
C17_Witness ==
    /\ returned("calculateGradeAwareDifficulty")
    /\ fnCall.total1 = 0
    /\ fnCall.total2 > 0
    /\ tierRank(fnResult.value[1]) < tierRank(fnResult.value[2])

\* 100 * correct / total rounded to the nearest integer, halves going up
nearestPercent(correct, total) == (200 * correct + total) \div (2 * total)

\* C18: getUserStats returns the length of the history, its accuracy in
\* percent rounded to the nearest integer, the length of its longest
\* all-correct suffix, and one weakAreas entry per operation in ascending
\* order of accuracy; for an empty history all zeros and no weakAreas
C18_UserStats ==
    returned("getUserStats") =>
        LET history == fnCall.history
            stats == fnResult.value
            n == Len(history)
            correct == Cardinality({i \in 1..n : history[i].correct})
            operations == {operationOf(history[i]) : i \in 1..n}
            weak == stats.weakAreas
        IN IF n = 0
           THEN stats = [totalQuestions |-> 0, accuracy |-> 0, streak |-> 0,
                         weakAreas |-> <<>>]
           ELSE /\ stats.totalQuestions = n
                /\ stats.accuracy = nearestPercent(correct, n)
                /\ \A i \in (n - stats.streak + 1)..n : history[i].correct
                /\ stats.streak < n => ~history[n - stats.streak].correct
                /\ Len(weak) = Cardinality(operations)
                /\ {weak[i].name : i \in 1..Len(weak)} = operations
                /\ \A i \in 1..(Len(weak) - 1) : weak[i].accuracy <= weak[i + 1].accuracy

(***************************************************************************)
(* Further claims about the question session                               *)
(***************************************************************************)

\* C22: a scored correct answer raises currentStreak by exactly 1, a scored
\* incorrect answer resets it to 0 and passes streak 0 to awardXP, and no
\* other step changes currentStreak
C22_StreakCountsConsecutiveCorrect ==
    [][IF awardCalls' # awardCalls
       THEN IF isCorrect' = "true"
            THEN /\ currentStreak' = currentStreak + 1
                 /\ submitted'.correct
                 /\ submitted'.streak = currentStreak'
            ELSE /\ currentStreak' = 0
                 /\ ~submitted'.correct
                 /\ submitted'.streak = 0
       ELSE currentStreak' = currentStreak]_vars

\* an incorrect answer has just reset a streak of two
C22_Witness ==
    /\ qpc = "awardXP"
    /\ isCorrect = "false"
    /\ currentStreak = 0
    /\ sessionStats.correct = 2
    /\ sessionStats.total = 3
    /\ Len(missedQuestions) = 1

\* C23: a failing awardXP or saveAnswer does not stop the submit: every
\* scored answer stays counted, its feedback is shown, saveAnswer is called
\* after awardXP whatever its outcome, and once no store call of the submit
\* is pending the submitting flag is cleared
C23_StoreFailureDoesNotBlock ==
    /\ qpc = "idle" => ~isSubmitting
    /\ sessionStats.total = awardCalls
    /\ saveCalls = awardCalls - (IF qpc = "awardXP" THEN 1 ELSE 0)
    /\ isCorrect # NULL => qFeedback # ""
    /\ (questionViewShown /\ isCorrect # NULL /\ mayLoadAnother)
           => ENABLED handleNextQuestion

\* the awardXP call of a correct answer failed (no XP was credited), the
\* submit completed and the next question has been loaded
C23_Witness ==
    /\ failures = 1
    /\ sessionStats.correct = 1
    /\ sessionStats.total = 1
    /\ sessionXP = 0
    /\ saveCalls = 1
    /\ qpc = "idle"
    /\ ~isSubmitting
    /\ presented = 2
    /\ isCorrect = NULL

\* C29: 0 <= currentStreak <= sessionStats.correct <= sessionStats.total,
\* and missedQuestions has one entry per incorrectly answered scored question
C29_SessionCounters ==
    /\ 0 <= currentStreak
    /\ currentStreak <= sessionStats.correct
    /\ sessionStats.correct <= sessionStats.total
    /\ Len(missedQuestions) = sessionStats.total - sessionStats.correct

\* a session with correct and incorrect scored answers and a running streak
C29_Witness ==
    /\ sessionStats.total = 4
    /\ sessionStats.correct = 3
    /\ currentStreak = 2
    /\ Len(missedQuestions) = 1

(***************************************************************************)
(* Further claims about challenges                                         *)
(***************************************************************************)

\* the updateDoc of client u's submitChallengeAnswer is applied in this step
submitWritten(u) == cpc[u] = "submitWrite" /\ cpc'[u] = "timer"

\* C24: the write of submitChallengeAnswer leaves the other role's answer
\* array and every field but its own array, status and completedAt as they
\* are, and once the challenge is created no step changes its questions
C24_SubmitWritesOwnArrayOnly ==
    [][/\ \A u \in Users :
             submitWritten(u) =>
                 /\ challenge'[otherField(role[u])] = challenge[otherField(role[u])]
                 /\ challenge'.creatorId = challenge.creatorId
                 /\ challenge'.opponentId = challenge.opponentId
                 /\ challenge'.startedAt = challenge.startedAt
       /\ challenge.status # "none" => challenge'.questions = challenge.questions]_vars

\* both players have stored answers and an opponent's write has just been
\* applied next to the creator's array
C24_Witness ==
    /\ Len(challenge.creatorAnswers) >= 2
    /\ Len(challenge.opponentAnswers) >= 1
    /\ \E u \in Joiners : cpc[u] = "timer" /\ role[u] = "opponent"
    /\ Len(challenge.questions) = CHALLENGE_QUESTION_COUNT

\* C28: one awardXP call raises the level by at most one: for every totalXP
\* and every amount calculateXPEarned returns (0..45), the level of
\* totalXP + amount is the level of totalXP or the next one, and leveledUp is
\* returned exactly when it is the next one
C28_AtMostOneLevelPerAward ==
    returned("awardXP") =>
        LET rise == getLevelForXP(fnCall.totalXP + fnCall.xpEarned)
                      - getLevelForXP(fnCall.totalXP)
        IN /\ fnCall.xpEarned \in 0..45
           /\ rise \in {0, 1}
           /\ fnResult.value.leveledUp <=> rise = 1
           /\ fnResult.value.level = getLevelForXP(fnCall.totalXP) + rise

\* an award has crossed the first threshold
C28_Witness ==
    /\ returned("awardXP")
    /\ fnCall.totalXP < 100
    /\ fnCall.xpEarned = 45
    /\ fnResult.value.leveledUp
    /\ fnResult.value.level = 2

(***************************************************************************)
(* Claims about answers read from text                                     *)
(***************************************************************************)

\* C21: parseFractionInput reads "W N/D" as W + N/D and "N/D" as N/D, a
\* plain numeral as its value, and yields NaN for the empty text and for
\* every fraction or mixed number whose D is 0; "1/2" is 0.5 and "1 1/2" is 1.5
C21_ParseFractionInput ==
    returned("parseFractionInput") =>
        LET s == fnCall.input
            v == fnResult.value
            n == Len(s)
            isNumeral(t) == t # <<>> /\ \A k \in 1..Len(t) : t[k] \in DigitChars
            is(num, den) == ~v.nan /\ v.num * den = num * v.den
        IN /\ s = <<>> => v.nan
           /\ \A i, j \in 1..n :
                 LET W == SubSeq(s, 1, i - 1)
                     N == SubSeq(s, i + 1, j - 1)
                     D == SubSeq(s, j + 1, n)
                 IN (/\ i < j /\ s[i] = " " /\ s[j] = "/"
                     /\ isNumeral(W) /\ isNumeral(N) /\ isNumeral(D)) =>
                        IF decimalValue(D) = 0 THEN v.nan
                        ELSE is(decimalValue(W) * decimalValue(D) + decimalValue(N),
                                decimalValue(D))
           /\ \A j \in 1..n :
                 LET N == SubSeq(s, 1, j - 1)
                     D == SubSeq(s, j + 1, n)
                 IN (s[j] = "/" /\ isNumeral(N) /\ isNumeral(D)) =>
                        IF decimalValue(D) = 0 THEN v.nan
                        ELSE is(decimalValue(N), decimalValue(D))
           /\ isNumeral(s) => is(decimalValue(s), 1)
           /\ s = <<"1", "/", "2">> => is(5, 10)
           /\ s = <<"1", " ", "1", "/", "2">> => is(15, 10)

\* "2 1/2" has been read as 2.5
C21_Witness ==
    /\ returned("parseFractionInput")
    /\ fnCall.input = <<"2", " ", "1", "/", "2">>
    /\ fnResult.value = number(5, 2)

\* C30: every question stored in a challenge has an answer that can be
\* typed: some non-empty text is accepted by answersMatch against the
\* stored answer, also when the generator returned a null answer.  The
\* texts tried are every text over the typed characters and the stored
\* answer itself.
C30_StoredQuestionAnswerable ==
    returned("generateChallengeQuestions") =>
        \E userAnswer \in TypedInputs \cup {fnResult.value} :
            /\ trim(userAnswer) # <<>>
            /\ answersMatch(userAnswer, fnResult.value)

\* C25: for a logic-pattern question that includes no text of the literal
\* table and whose run holds three or more integers, calculateAnswer
\* returns the next term by the first rule that applies: Fibonacci-like,
\* geometric with a ratio other than 1, constant second difference, else
\* the last difference; the numbers outside the run do not count
C25_NextOfNumberSequence ==
    (/\ returned("calculateAnswer") /\ fnCall.asked = "sequence"
     /\ \A e \in 1..Len(LiteralTable), i \in 1..Len(fnCall.question) :
            ~matchesAt(fnCall.question, i, LiteralTable[e].text)) =>
        LET run == fnCall.run
            n == Len(run)
            last == run[n]
            difference(i) == run[i + 1] - run[i]
            v == fnResult.value.value
            is(num, den) == ~v.nan /\ v.num * den = num * v.den
        IN /\ fnResult.value.kind = "number"
           /\ IF \A i \in 3..n : run[i] = run[i - 1] + run[i - 2]
              THEN is(last + run[n - 1], 1)
              ELSE IF /\ \A i \in 1..(n - 1) : run[i] # 0
                      /\ \A i \in 2..(n - 1) : run[i + 1] * run[i - 1] = run[i] * run[i]
                      /\ run[2] # run[1]
              THEN is(last * run[2], run[1])
              ELSE IF \A i \in 2..(n - 2) :
                         difference(i + 1) - difference(i) = difference(2) - difference(1)
              THEN is(last + (difference(n - 1) + (difference(2) - difference(1))), 1)
              ELSE is(last + difference(n - 1), 1)

\* 4, 6, 9 between other numbers has been continued with 13.5
C25_Witness ==
    /\ returned("calculateAnswer")
    /\ fnCall.asked = "sequence"
    /\ fnCall.stray
    /\ fnCall.run = <<4, 6, 9>>
    /\ fnResult.value.value = number(54, 4)

\* C26: for a comma-separated letter sequence L1, L2, L3 calculateAnswer
\* returns the upper-case letter L3 + (L2 - L1), clamped at 'Z': always a
\* letter of A..Z, whatever words the question holds besides
C26_NextLetter ==
    (returned("calculateAnswer") /\ fnCall.asked = "letters") =>
        LET L == fnCall.letters
            next == Min(L[3] + (L[2] - L[1]), 26)
        IN /\ fnResult.value.kind = "text"
           /\ \E i \in 1..26 : fnResult.value.text = <<UpperChars[i]>>
           /\ next >= 1 => fnResult.value.text = <<UpperChars[next]>>

\* C27: for a product of two superscript powers calculateAnswer returns
\* base^(exp1 + exp2) when the bases are equal and base1^exp1 * base2^exp2
\* when they differ
C27_ProductOfPowers ==
    (returned("calculateAnswer") /\ fnCall.asked = "powers") =>
        /\ fnResult.value.kind = "number"
        /\ fnResult.value.value =
              IF fnCall.base1 = fnCall.base2
              THEN number(pow(fnCall.base1, fnCall.exp1 + fnCall.exp2), 1)
              ELSE number(pow(fnCall.base1, fnCall.exp1)
                            * pow(fnCall.base2, fnCall.exp2), 1)

====
